---- MODULE Spec2Model ----
(***************************************************************************)
(* wafer: ingestion of text files into embedding records.                  *)
(*                                                                         *)
(* The model follows the Go sources:                                       *)
(*   internal/ingest/embedder.go   Embedder (GetEmbedding, HealthCheck)    *)
(*   internal/ingest/chunker.go    Chunker  (ChunkText, ChunkFile)         *)
(*   internal/ingest/writer.go     Writer   (NewWriter, WriteRecord, Close)*)
(*   internal/ingest/processor.go  Processor.Process and its helpers       *)
(*   internal/config (config.go)   Config.Validate                         *)
(*   cmd/wafer/main.go             main                                    *)
(*                                                                         *)
(* Two entry points are modelled.  entry = "GetEmbedding" is a direct call *)
(* of Embedder.GetEmbedding by a caller that supplies its own context;     *)
(* entry = "main" is the command line program, which validates the         *)
(* configuration and runs Processor.Process.                               *)
(*                                                                         *)
(* Two further specifications exercise one type each, as its unit tests    *)
(* do: SpecWriter is a client of Writer (NewWriter, WriteRecord, Close on  *)
(* one output path), SpecChunker a caller of Chunker.ChunkText.            *)
(***************************************************************************)
EXTENDS Integers, Sequences, FiniteSets, TLC

VARIABLES
    entry,        \* which entry point this behaviour exercises
    ctx,          \* the context.Context handed to the embedder
    cancelPhase,  \* when the external cancellation signal fired ("none" if not yet)
    epc,          \* GetEmbedding: control position
    attempt,      \* GetEmbedding: loop variable `attempt`
    lastErr,      \* GetEmbedding: local `lastErr`
    eret,         \* GetEmbedding: returned ([]float64, error)
    requests,     \* requestEmbedding calls made by the current GetEmbedding call
    lastReqErr,   \* error of the most recent failed request of the current call
    lastResp,     \* what the service answered to the most recent request
    waitLog,      \* backoff durations slept by the current call (slog.Debug "backoff")
    pc,           \* main / Processor.Process: control position
    cfg,          \* config.Config built by main, with the state of cfg.Directory
    tree,         \* the entries under cfg.Directory, in WalkDir (lexical) order
    outDir,       \* filepath.Dir(cfg.Output) exists
    outFile,      \* the file at cfg.Output
    outFile0,     \* the file at cfg.Output when the program started
    writer,       \* p.writer: "nil", "open" or "closed"
    txtFiles,     \* Process: local txtFiles
    fileIdx,      \* Process: position of the file loop in txtFiles (1-based)
    chunks,       \* processFile: local chunks
    chunkIdx,     \* processFile: position of the chunk loop in chunks (1-based)
    stats,        \* p.stats
    healthChecks, \* HealthCheck calls made
    healthErr,    \* Process: the error HealthCheck returned
    embedCalls,   \* GetEmbedding calls made by processChunk
    procErr,      \* the error returned by Process
    exitCode,     \* status passed to os.Exit (0 on return from main), -1 while running
    errorLog,     \* Process: the slog.Error("Failed to process file") lines
    summary,      \* printSummary: the "Processing completed" lines
    wOps,         \* Writer client: calls made so far
    wLastOp,      \* Writer client: the latest call
    wErr,         \* Writer client: the error the latest call returned
    wOpens,       \* Writer client: NewWriter calls that succeeded
    ctText,       \* ChunkText caller: the text passed
    ctSize,       \* ChunkText caller: the chunk size of the Chunker
    ctResult,     \* ChunkText caller: whether it was called and what it returned
    ctAgain,      \* ChunkText caller: the same for the joined texts of ctResult
    ollamaHost,   \* Embedder client: os.Getenv("OLLAMA_HOST"), "" when unset
    embedder,     \* Embedder client: the *Embedder that NewEmbedder returned
    sent,         \* Embedder client: the URLs of the requests sent, in order
    etLast,       \* Embedder client: the latest call, its response and its error
    dResult,      \* discovery caller: whether it was called and what it returned
    clPc,         \* ChunkText, stepwise: control position
    clWords,      \* ChunkText, stepwise: local `words`
    clI,          \* ChunkText, stepwise: loop variable `i`
    clIndex,      \* ChunkText, stepwise: local `chunkIndex`
    clChunks,     \* ChunkText, stepwise: local `chunks`
    clIters       \* ChunkText, stepwise: loop bodies run so far

embVars == <<epc, attempt, lastErr, eret, requests, lastReqErr, lastResp,
             waitLog>>
envVars == <<entry, ctx, cfg, tree, outFile0>>
fsVars == <<outDir, outFile, writer>>
loopVars == <<txtFiles, fileIdx, chunks, chunkIdx>>
runVars == <<stats, healthChecks, healthErr, embedCalls, procErr, exitCode, errorLog,
            summary>>
procVars == <<pc, fsVars, loopVars, runVars>>
writerTestVars == <<wOps, wLastOp, wErr, wOpens>>
chunkerTestVars == <<ctText, ctSize, ctResult, ctAgain>>
embedderTestVars == <<ollamaHost, embedder, sent, etLast>>
discoveryTestVars == <<dResult>>
chunkLoopVars == <<clPc, clWords, clI, clIndex, clChunks, clIters>>
testVars == <<writerTestVars, chunkerTestVars, embedderTestVars, discoveryTestVars,
              chunkLoopVars>>
vars == <<envVars, cancelPhase, embVars, procVars, testVars>>

----------------------------------------------------------------------------
(* Errors.  A Go error built with fmt.Errorf("...: %w", err) is a chain of  *)
(* layers, outermost first; nil is the empty chain.                         *)

NoErr == <<>>

Layer(msg, n) == [msg |-> msg, n |-> n]

\* fmt.Errorf(msg + ": %w", cause)
Wrap(msg, n, cause) == <<Layer(msg, n)>> \o cause

\* context.Canceled, the value of ctx.Err() once ctx is done
CtxCanceled == <<Layer("context canceled", 0)>>

\* errors.Is(err, target) for a one-layer target
ErrorsIs(err, target) == \E i \in 1..Len(err) : err[i] = target[1]

----------------------------------------------------------------------------
(* Embedder                                                                 *)

\* NewEmbedder: retries: 3
retries == 3

\* NewEmbedder: backoff: time.Second (durations are counted in seconds)
backoff == 1

RECURSIVE Pow2(_)
\* 1 << n
Pow2(n) == IF n = 0 THEN 1 ELSE 2 * Pow2(n - 1)

\* Mutant: a linear backoff, e.backoff * attempt
BackoffLinear(a) == backoff * a

\* backoffDuration := e.backoff * time.Duration(1<<(attempt-1))
BackoffDuration(a) == backoff * Pow2(a - 1)

\* ctx.Done() is closed: only a context derived from the cancellation signal
\* observes it; context.Background() is never done.
ctxDone == ctx = "cancellable" /\ cancelPhase # "none"

\* What the embedding service can answer to one request.  "neterr" is a
\* transport failure of client.Do; otherwise an HTTP status and a body, the
\* body being malformed JSON or a JSON object whose embedding array is given.
Body(json, embedding) == [json |-> json, embedding |-> embedding]

Bodies == {Body(FALSE, <<>>), Body(TRUE, <<>>), Body(TRUE, <<1, 2>>)}

HttpResponse(s, b) == [kind |-> "http", status |-> s, body |-> b]

NetErr == [kind |-> "neterr", status |-> 0, body |-> Body(FALSE, <<>>)]

\* Statuses other than 200, each sent with a well-formed, non-empty embedding
Non200Statuses == {201, 204, 400, 404, 500}

Responses ==
    {NetErr}
    \cup {HttpResponse(200, b) : b \in Bodies}
    \cup {HttpResponse(s, Body(TRUE, <<1, 2>>)) : s \in Non200Statuses}

\* The answers explored in whole runs of the program, where every chunk of
\* every file is a call of its own
RunResponses ==
    {NetErr}
    \cup {HttpResponse(200, b) : b \in Bodies}
    \cup {HttpResponse(s, Body(TRUE, <<1, 2>>)) : s \in {201, 500}}

\* The answers of the service to the caller at hand
ServiceResponses == IF entry = "main" THEN RunResponses ELSE Responses

\* No response: client.Do gave up because ctx was done.
Aborted == [kind |-> "aborted", status |-> 0, body |-> Body(FALSE, <<>>)]

\* Mutant: requestEmbedding without the len(embeddingResp.Embedding) == 0 check
RequestEmbeddingNoEmptyCheck(resp, aborted, cut) ==
    IF aborted
    THEN [embedding |-> <<>>, err |-> Wrap("failed to make request", 0, CtxCanceled)]
    ELSE IF resp.kind = "neterr"
    THEN [embedding |-> <<>>,
          err |-> Wrap("failed to make request", 0, <<Layer("network", 0)>>)]
    ELSE IF resp.status # 200
    THEN [embedding |-> <<>>,
          err |-> <<Layer("API request failed with status", resp.status)>>]
    ELSE IF cut
    THEN [embedding |-> <<>>, err |-> Wrap("failed to decode response", 0, CtxCanceled)]
    ELSE IF ~resp.body.json
    THEN [embedding |-> <<>>,
          err |-> Wrap("failed to decode response", 0, <<Layer("json", 0)>>)]
    ELSE [embedding |-> resp.body.embedding, err |-> NoErr]

\* Mutant: every 2xx status is accepted
StatusAny2xx(status) == status \in 200..299

\* requestEmbedding: resp.StatusCode != http.StatusOK is an error
StatusOK(status) == status = 200

\* requestEmbedding: the (embedding, error) it returns for a response.
\* `aborted` is client.Do failing because ctx is done; `cut` is the read of
\* the body by Decode failing because ctx became done after client.Do had
\* returned the response.  The error of io.ReadAll on a status other than
\* 200 is dropped, so a cut body changes nothing there.
RequestEmbedding(resp, aborted, cut) ==
    IF aborted
    THEN [embedding |-> <<>>, err |-> Wrap("failed to make request", 0, CtxCanceled)]
    ELSE IF resp.kind = "neterr"
    THEN [embedding |-> <<>>,
          err |-> Wrap("failed to make request", 0, <<Layer("network", 0)>>)]
    ELSE IF ~StatusOK(resp.status)
    THEN [embedding |-> <<>>,
          err |-> <<Layer("API request failed with status", resp.status)>>]
    ELSE IF cut
    THEN [embedding |-> <<>>, err |-> Wrap("failed to decode response", 0, CtxCanceled)]
    ELSE IF ~resp.body.json
    THEN [embedding |-> <<>>,
          err |-> Wrap("failed to decode response", 0, <<Layer("json", 0)>>)]
    ELSE IF Len(resp.body.embedding) = 0
    THEN [embedding |-> <<>>, err |-> <<Layer("received empty embedding", 0)>>]
    ELSE [embedding |-> resp.body.embedding, err |-> NoErr]

\* Mutant: lastErr is set by the first failure only
KeepFirstErr(old, err) == IF old = NoErr THEN err ELSE old

\* lastErr = err
NextLastErr(old, err) == err

\* return nil, fmt.Errorf("failed to get embedding after %d attempts: %w", ...)
AggregatedErr(cause) == Wrap("failed to get embedding after attempts", retries + 1, cause)

\* GetEmbedding is entered: var lastErr error; attempt := 0
EmbCallState ==
    /\ epc' = "loop"
    /\ attempt' = 0
    /\ lastErr' = NoErr
    /\ eret' = [embedding |-> <<>>, err |-> NoErr]
    /\ requests' = 0
    /\ lastReqErr' = NoErr
    /\ lastResp' = Aborted
    /\ waitLog' = <<>>

\* Mutant: attempt < e.retries
LoopCondStrict(a) == a < retries

\* attempt <= e.retries
LoopCond(a) == a <= retries

\* for attempt := 0; attempt <= e.retries; attempt++ { if attempt > 0 {...} ...
\* The loop condition, the backoff computation and, on the first attempt, the
\* call of requestEmbedding.
EmbLoop ==
    /\ epc = "loop"
    /\ IF LoopCond(attempt)
       THEN IF attempt > 0
            THEN /\ waitLog' = Append(waitLog, BackoffDuration(attempt))
                 /\ epc' = "wait"
                 /\ UNCHANGED <<eret, requests>>
            ELSE /\ epc' = "inflight"
                 /\ requests' = requests + 1
                 /\ UNCHANGED <<eret, waitLog>>
       ELSE /\ epc' = "ret"
            /\ eret' = [embedding |-> <<>>, err |-> AggregatedErr(lastErr)]
            /\ UNCHANGED <<requests, waitLog>>
    /\ UNCHANGED <<envVars, testVars, cancelPhase, attempt, lastErr, lastReqErr,
                   lastResp, procVars>>

\* select { case <-ctx.Done(): return nil, ctx.Err() ...
EmbWaitCancelled ==
    /\ epc = "wait"
    /\ ctxDone
    /\ epc' = "ret"
    /\ eret' = [embedding |-> <<>>, err |-> CtxCanceled]
    /\ UNCHANGED <<envVars, testVars, cancelPhase, attempt, lastErr, requests,
                   lastReqErr, lastResp, waitLog, procVars>>

\* Mutant: a plain time.Sleep, which elapses whatever ctx does
TimerCaseAlways == TRUE

\* The timer case of the select can be taken: a closed ctx.Done() is ready
\* before a timer of a positive duration, and wakes the select first.
TimerCaseReady == ~ctxDone

\* ... case <-time.After(backoffDuration): } followed by the call of
\* requestEmbedding.  The timer is the only ready case while ctx is not done.
EmbWaitElapsed ==
    /\ epc = "wait"
    /\ TimerCaseReady
    /\ epc' = "inflight"
    /\ requests' = requests + 1
    /\ UNCHANGED <<envVars, testVars, cancelPhase, attempt, lastErr, eret,
                   lastReqErr, lastResp, waitLog, procVars>>

\* GetEmbedding after requestEmbedding has returned r: if err == nil
\* { return embedding, nil }; lastErr = err; attempt++
AttemptReturns(r) ==
    IF r.err = NoErr
    THEN /\ epc' = "ret"
         /\ eret' = r
         /\ UNCHANGED <<attempt, lastErr, lastReqErr>>
    ELSE /\ epc' = "loop"
         /\ lastErr' = NextLastErr(lastErr, r.err)
         /\ attempt' = attempt + 1
         /\ lastReqErr' = r.err
         /\ UNCHANGED eret

\* resp, err := e.client.Do(req) returns: with an error when ctx is done or
\* the transport fails, and then requestEmbedding returns "failed to make
\* request"; otherwise with the status line and headers of the response.
EmbDoReturns ==
    /\ epc = "inflight"
    /\ \E resp \in ServiceResponses :
         IF ctxDone \/ resp.kind = "neterr"
         THEN /\ lastResp' = IF ctxDone THEN Aborted ELSE resp
              /\ AttemptReturns(RequestEmbedding(resp, ctxDone, FALSE))
         ELSE /\ lastResp' = resp
              /\ epc' = "body"
              /\ UNCHANGED <<attempt, lastErr, lastReqErr, eret>>
    /\ UNCHANGED <<envVars, testVars, cancelPhase, requests, waitLog, procVars>>

\* How the read of the body can end: once ctx is done the read fails with
\* context.Canceled unless the bytes had already arrived.
BodyCuts == IF ctxDone THEN BOOLEAN ELSE {FALSE}

\* The status check and the read of resp.Body, then the return of
\* requestEmbedding to GetEmbedding.
EmbBodyRead ==
    /\ epc = "body"
    /\ \E cut \in BodyCuts : AttemptReturns(RequestEmbedding(lastResp, FALSE, cut))
    /\ UNCHANGED <<envVars, testVars, cancelPhase, requests, lastResp, waitLog, procVars>>

\* The external cancellation signal fires (at most once).
Cancel ==
    /\ cancelPhase = "none"
    /\ epc \in {"loop", "wait", "inflight", "body"}
    /\ cancelPhase' = IF epc = "loop" THEN "between" ELSE epc
    /\ UNCHANGED <<envVars, testVars, embVars, procVars>>

----------------------------------------------------------------------------
(* Chunker.  A text is a sequence of characters.                            *)

\* One element of a text that stands for 32768 letters "a" in a row: half
\* of the largest buffer of a bufio.Scanner
Run32K == "a*32768"

\* unicode.IsSpace
IsSpace(c) == c \in {" ", "\n"}

\* unicode.IsLetter(r) || unicode.IsDigit(r)
IsAlnum(c) == c \in {"a", "b", "1", Run32K}

\* The bytes an element of a text takes in the Scanner's buffer
ByteLen(c) == IF c = Run32K THEN 32768 ELSE 1

RECURSIVE TokenBytes(_)
\* len(token) in bytes
TokenBytes(tok) == IF tok = <<>> THEN 0 ELSE ByteLen(Head(tok)) + TokenBytes(Tail(tok))

\* bufio.MaxScanTokenSize = 64 * 1024, the buffer limit of bufio.NewScanner
MaxScanTokenSize == 65536

RECURSIVE TrimLeft(_)
TrimLeft(s) ==
    IF s # <<>> /\ IsSpace(Head(s)) THEN TrimLeft(Tail(s)) ELSE s

RECURSIVE TrimRight(_)
TrimRight(s) ==
    IF s # <<>> /\ IsSpace(s[Len(s)]) THEN TrimRight(SubSeq(s, 1, Len(s) - 1)) ELSE s

\* strings.TrimSpace
TrimSpace(s) == TrimRight(TrimLeft(s))

\* isValidWord: non-empty and holding at least one letter or digit
isValidWord(word) ==
    /\ word # <<>>
    /\ \E i \in 1..Len(word) : IsAlnum(word[i])

RECURSIVE ScanWords(_, _)
\* for scanner.Scan() { scanner.Text() } with bufio.ScanWords over the text:
\* the maximal runs of non-space characters, in order; `cur` is the token
\* being read.  A token that fills the buffer (MaxScanTokenSize bytes with
\* no space seen) makes Scan return false with bufio.ErrTooLong, which the
\* caller never reads: that token and all that follows it are not returned.
ScanWords(s, cur) ==
    IF TokenBytes(cur) >= MaxScanTokenSize
    THEN <<>>
    ELSE IF s = <<>>
    THEN IF cur = <<>> THEN <<>> ELSE <<cur>>
    ELSE IF IsSpace(Head(s))
         THEN (IF cur = <<>> THEN <<>> ELSE <<cur>>) \o ScanWords(Tail(s), <<>>)
         ELSE ScanWords(Tail(s), Append(cur, Head(s)))

\* SelectSeq needs an operator of one argument
KeepValid(words) == SelectSeq(words, isValidWord)

\* tokenizeWords
tokenizeWords(text) == KeepValid(ScanWords(text, <<>>))

RECURSIVE Join(_, _)
\* strings.Join
Join(words, sep) ==
    IF words = <<>> THEN <<>>
    ELSE IF Len(words) = 1 THEN words[1]
    ELSE words[1] \o sep \o Join(Tail(words), sep)

Min(a, b) == IF a < b THEN a ELSE b

Chunk(text, wordCount, index) == [Text |-> text, WordCount |-> wordCount, Index |-> index]

\* end := i + c.chunkSize; if end > len(words) { end = len(words) }
ChunkEnd(i, chunkSize, n) == Min(i + chunkSize, n)

\* Mutant: chunkIndex += 2
NextChunkIndexSkip(chunkIndex) == chunkIndex + 2

\* chunkIndex++
NextChunkIndex(chunkIndex) == chunkIndex + 1

\* Mutant: the words of a chunk are joined with nothing between them
WordSepNone == <<>>

\* strings.Join(chunkWords, " ")
WordSep == <<" ">>

RECURSIVE ChunkGroups(_, _, _, _)
\* for i := 0; i < len(words); i += c.chunkSize { ... }, for chunkSize >= 1
ChunkGroups(words, i, chunkIndex, chunkSize) ==
    IF i >= Len(words) THEN <<>>
    ELSE LET end == ChunkEnd(i, chunkSize, Len(words))
             chunkWords == SubSeq(words, i + 1, end)
             chunkText == TrimSpace(Join(chunkWords, WordSep))
         IN  IF chunkText # <<>>
             THEN <<Chunk(chunkText, Len(chunkWords), chunkIndex)>>
                  \o ChunkGroups(words, i + chunkSize, NextChunkIndex(chunkIndex),
                                 chunkSize)
             ELSE ChunkGroups(words, i + chunkSize, chunkIndex, chunkSize)

\* ChunkText, for chunkSize >= 1
ChunkText(text0, chunkSize) ==
    LET text == TrimSpace(text0)
        words == tokenizeWords(text)
    IN  IF text = <<>> THEN <<>>
        ELSE IF Len(words) = 0 THEN <<>>
        ELSE IF Len(words) <= chunkSize THEN <<Chunk(text, Len(words), 0)>>
        ELSE ChunkGroups(words, 0, 0, chunkSize)

\* Mutant: a file that cannot be opened or read is chunked as an empty text
ChunkFileLenient(f, chunkSize) ==
    [chunks |-> IF f.opens /\ f.readable THEN ChunkText(f.text, chunkSize) ELSE <<>>,
     err |-> NoErr]

\* ChunkFile: os.Open(filePath) does not return.  Opening a FIFO for reading
\* blocks until a writer opens it, and the model has no such writer.
OpenBlocks(f) == f.type = "fifo"

\* ChunkFile: os.Open fails ("failed to open file %s: %w"), or the file opens
\* and io.ReadAll fails ("failed to read file %s: %w"), or the content is
\* chunked by ChunkText.
ChunkFile(f, chunkSize) ==
    IF ~f.opens
    THEN [chunks |-> <<>>, err |-> Wrap("failed to open file", 0, <<Layer("io", 0)>>)]
    ELSE IF ~f.readable
    THEN [chunks |-> <<>>, err |-> Wrap("failed to read file", 0, <<Layer("io", 0)>>)]
    ELSE [chunks |-> ChunkText(f.text, chunkSize), err |-> NoErr]

----------------------------------------------------------------------------
(* Config                                                                   *)

\* os.MkdirAll(dir, 0755): nothing to do for an existing directory; creating
\* a missing one succeeds (ok) or fails.
MkdirAll(exists, ok) == [err |-> ~exists /\ ~ok, exists |-> exists \/ ok]

\* Mutant: Validate without the test of the model name
ValidateNoModelCheck(c, dirExists, mkdirOk) ==
    IF c.Directory = "missing"
    THEN [err |-> <<Layer("directory does not exist", 0)>>, outDir |-> dirExists]
    ELSE IF c.Directory = "denied"
    THEN [err |-> Wrap("cannot access directory", 0, <<Layer("io", 0)>>),
          outDir |-> dirExists]
    ELSE IF c.Directory # "dir"
    THEN [err |-> <<Layer("path is not a directory", 0)>>, outDir |-> dirExists]
    ELSE IF c.ChunkSize <= 0
    THEN [err |-> <<Layer("chunk size must be positive", c.ChunkSize)>>,
          outDir |-> dirExists]
    ELSE IF MkdirAll(dirExists, mkdirOk).err
    THEN [err |-> Wrap("cannot create output directory", 0, <<Layer("io", 0)>>),
          outDir |-> dirExists]
    ELSE [err |-> NoErr, outDir |-> MkdirAll(dirExists, mkdirOk).exists]

\* Config.Validate: the error it returns and whether the output directory
\* exists afterwards.  c.Directory stands for what os.Stat finds at the path:
\* "missing", "denied" (another Stat error), "file" or "dir".
Validate(c, dirExists, mkdirOk) ==
    IF c.Directory = "missing"
    THEN [err |-> <<Layer("directory does not exist", 0)>>, outDir |-> dirExists]
    ELSE IF c.Directory = "denied"
    THEN [err |-> Wrap("cannot access directory", 0, <<Layer("io", 0)>>),
          outDir |-> dirExists]
    ELSE IF c.Directory # "dir"
    THEN [err |-> <<Layer("path is not a directory", 0)>>, outDir |-> dirExists]
    ELSE IF c.ChunkSize <= 0
    THEN [err |-> <<Layer("chunk size must be positive", c.ChunkSize)>>,
          outDir |-> dirExists]
    ELSE IF MkdirAll(dirExists, mkdirOk).err
    THEN [err |-> Wrap("cannot create output directory", 0, <<Layer("io", 0)>>),
          outDir |-> dirExists]
    ELSE IF c.Model = ""
    THEN [err |-> <<Layer("model name cannot be empty", 0)>>,
          outDir |-> MkdirAll(dirExists, mkdirOk).exists]
    ELSE [err |-> NoErr, outDir |-> MkdirAll(dirExists, mkdirOk).exists]

----------------------------------------------------------------------------
(* Writer.  The output file is a sequence of written segments, one per      *)
(* WriteRecord call that wrote anything: the record, whether its JSON was   *)
(* written completely, and whether the line terminator followed.            *)

NoFile == [exists |-> FALSE, lines |-> <<>>]

\* A byte of a Go string that is not part of a valid UTF-8 encoding
InvalidByte == "0xFF"

\* U+FFFD, the Unicode replacement character
ReplacementRune == "U+FFFD"

\* encoding/json, appendString: a byte that is not valid UTF-8 is written as
\* the escape of U+FFFD, "<" as \u003c (HTML escaping is on for Marshal),
\* a quote and a backslash with a backslash before them, the rest as it is.
EncodeRune(c) ==
    IF c = InvalidByte THEN <<"\\", "u", "f", "f", "f", "d">>
    ELSE IF c = "<" THEN <<"\\", "u", "0", "0", "3", "c">>
    ELSE IF c = "\"" THEN <<"\\", "\"">>
    ELSE IF c = "\\" THEN <<"\\", "\\">>
    ELSE <<c>>

RECURSIVE EncodeRunes(_)
EncodeRunes(s) == IF s = <<>> THEN <<>> ELSE EncodeRune(Head(s)) \o EncodeRunes(Tail(s))

\* json.Marshal of a string: the JSON string literal, as characters
MarshalString(s) == <<"\"">> \o EncodeRunes(s) \o <<"\"">>

\* The rune a \uXXXX escape stands for, among those that occur
UnescapeHex(hex) ==
    IF hex = <<"0", "0", "3", "c">> THEN "<"
    ELSE IF hex = <<"f", "f", "f", "d">> THEN ReplacementRune
    ELSE "?"

RECURSIVE DecodeRunes(_)
\* encoding/json, unquote: the characters between the quotes, escapes undone
DecodeRunes(j) ==
    IF j = <<>> THEN <<>>
    ELSE IF Head(j) = "\\"
    THEN IF j[2] = "u"
         THEN <<UnescapeHex(SubSeq(j, 3, 6))>> \o DecodeRunes(SubSeq(j, 7, Len(j)))
         ELSE <<j[2]>> \o DecodeRunes(SubSeq(j, 3, Len(j)))
    ELSE <<Head(j)>> \o DecodeRunes(Tail(j))

\* json.Unmarshal of a JSON string literal
UnmarshalString(j) == DecodeRunes(SubSeq(j, 2, Len(j) - 1))

Digits == <<"0", "1", "2", "3", "4", "5", "6", "7", "8", "9">>

RECURSIVE MarshalInt(_)
\* json.Marshal of a non-negative int: its decimal digits
MarshalInt(n) ==
    IF n < 10 THEN <<Digits[n + 1]>> ELSE MarshalInt(n \div 10) \o <<Digits[(n % 10) + 1]>>

RECURSIVE UnmarshalInt(_)
\* json.Unmarshal of decimal digits
UnmarshalInt(ds) ==
    IF ds = <<>> THEN 0
    ELSE 10 * UnmarshalInt(SubSeq(ds, 1, Len(ds) - 1))
         + (CHOOSE d \in 0..9 : Digits[d + 1] = ds[Len(ds)])

\* json.Marshal of []float64, one number after the other; the numbers of
\* the model are whole, and Go writes the shortest decimal that reads back
\* as the same float64
MarshalFloats(v) == [i \in 1..Len(v) |-> MarshalInt(v[i])]

UnmarshalFloats(j) == [i \in 1..Len(j) |-> UnmarshalInt(j[i])]

\* json.Marshal(record): the JSON object, as the encoded value of each key.
\* The id, the source file and the timestamp are names made of plain
\* characters, written as they are.
MarshalRecord(rec) ==
    [id |-> rec.id,
     source_file |-> rec.source_file,
     chunk_index |-> MarshalInt(rec.chunk_index),
     text |-> MarshalString(rec.text),
     embedding |-> MarshalFloats(rec.embedding),
     word_count |-> MarshalInt(rec.word_count),
     created_at |-> rec.created_at]

\* json.Unmarshal(line, &record), as the tests and any reader of the file do
UnmarshalRecord(j) ==
    [id |-> j.id,
     source_file |-> j.source_file,
     chunk_index |-> UnmarshalInt(j.chunk_index),
     text |-> UnmarshalString(j.text),
     embedding |-> UnmarshalFloats(j.embedding),
     word_count |-> UnmarshalInt(j.word_count),
     created_at |-> j.created_at]

\* What one WriteRecord call left in the file: the record it built, its
\* JSON, whether the JSON was written to its end and whether the line
\* terminator followed.
Segment(rec, complete, nl) ==
    [rec |-> rec, line |-> MarshalRecord(rec), complete |-> complete, nl |-> nl]

\* Mutant: the file is opened with O_TRUNC instead of O_APPEND
NewWriterTrunc(dirExists, file, mkdirOk, openOk) ==
    IF MkdirAll(dirExists, mkdirOk).err
    THEN [err |-> Wrap("failed to create output directory", 0, <<Layer("io", 0)>>),
          outDir |-> dirExists, outFile |-> file, writer |-> "nil"]
    ELSE IF ~openOk
    THEN [err |-> Wrap("failed to open output file", 0, <<Layer("io", 0)>>),
          outDir |-> TRUE, outFile |-> file, writer |-> "nil"]
    ELSE [err |-> NoErr, outDir |-> TRUE,
          outFile |-> [exists |-> TRUE, lines |-> <<>>], writer |-> "open"]

\* NewWriter: MkdirAll of the parent directory, then
\* os.OpenFile(outputPath, O_CREATE|O_WRONLY|O_APPEND, 0644)
NewWriter(dirExists, file, mkdirOk, openOk) ==
    IF MkdirAll(dirExists, mkdirOk).err
    THEN [err |-> Wrap("failed to create output directory", 0, <<Layer("io", 0)>>),
          outDir |-> dirExists, outFile |-> file, writer |-> "nil"]
    ELSE IF ~openOk
    THEN [err |-> Wrap("failed to open output file", 0, <<Layer("io", 0)>>),
          outDir |-> TRUE, outFile |-> file, writer |-> "nil"]
    ELSE [err |-> NoErr, outDir |-> TRUE,
          outFile |-> [exists |-> TRUE, lines |-> file.lines], writer |-> "open"]

\* Mutant: ChunkIndex is not taken from the chunk
VectorRecordNoIndex(id, sourceFile, chunk, embedding) ==
    [id |-> id, source_file |-> sourceFile, chunk_index |-> 0,
     text |-> chunk.Text, embedding |-> embedding, word_count |-> chunk.WordCount,
     created_at |-> "RFC3339"]

\* VectorRecord built by WriteRecord; the uuid is fresh for the file.
VectorRecord(id, sourceFile, chunk, embedding) ==
    [id |-> id, source_file |-> sourceFile, chunk_index |-> chunk.Index,
     text |-> chunk.Text, embedding |-> embedding, word_count |-> chunk.WordCount,
     created_at |-> "RFC3339"]

\* What the two writes of WriteRecord can do on an open file.
WriteOutcomes == {"ok", "write_failed", "write_partial", "newline_failed"}

\* WriteRecord: w.file.Write(jsonData), then w.file.WriteString("\n")
WriteRecord(w, file, sourceFile, chunk, embedding, outcome) ==
    LET rec == VectorRecord(Len(file.lines) + 1, sourceFile, chunk, embedding) IN
    IF w # "open" \/ outcome = "write_failed"
    THEN [err |-> Wrap("failed to write record", 0, <<Layer("io", 0)>>),
          outFile |-> file]
    ELSE IF outcome = "write_partial"
    THEN [err |-> Wrap("failed to write record", 0, <<Layer("io", 0)>>),
          outFile |-> [file EXCEPT !.lines = Append(@, Segment(rec, FALSE, FALSE))]]
    ELSE IF outcome = "newline_failed"
    THEN [err |-> Wrap("failed to write newline", 0, <<Layer("io", 0)>>),
          outFile |-> [file EXCEPT !.lines = Append(@, Segment(rec, TRUE, FALSE))]]
    ELSE [err |-> NoErr,
          outFile |-> [file EXCEPT !.lines = Append(@, Segment(rec, TRUE, TRUE))]]

\* Mutant: Close leaves the file open
CloseNoop(w) == w

\* Writer.Close
Close(w) == IF w = "open" THEN "closed" ELSE w

----------------------------------------------------------------------------
(* Embedder.HealthCheck                                                     *)

HealthResponses ==
    {NetErr} \cup {HttpResponse(s, Body(TRUE, <<>>)) : s \in {200, 204, 500}}

\* HealthCheck: the error it returns for a response of GET /api/tags
HealthCheck(resp) ==
    IF resp.kind = "neterr"
    THEN Wrap("Ollama API is not accessible", 0, <<Layer("network", 0)>>)
    ELSE IF resp.status # 200
    THEN <<Layer("Ollama API health check failed with status", resp.status)>>
    ELSE NoErr

\* baseURL: "http://localhost:11434", the default Ollama URL
DefaultBaseURL == "http://localhost:11434"

\* NewEmbedder(model): the base URL is the default one; the environment is
\* not read.
NewEmbedder(model) == [made |-> TRUE, baseURL |-> DefaultBaseURL, model |-> model]

\* fmt.Sprintf("%s/api/tags", e.baseURL) and
\* fmt.Sprintf("%s/api/embeddings", e.baseURL)
ApiURL(baseURL, path) == [base |-> baseURL, path |-> path]

----------------------------------------------------------------------------
(* Processor                                                                *)

\* strings.ToLower on the extensions that occur
ToLower(ext) == IF ext \in {".TXT", ".Txt"} THEN ".txt" ELSE ext

\* An entry met by filepath.WalkDir under cfg.Directory: its extension, its
\* kind, whether the walk reports an access error for it, whether os.Open
\* succeeds on it, whether io.ReadAll succeeds once it is open, its content.
DirEntry(ext, type, walkErr, opens, readable, text) ==
    [ext |-> ext, type |-> type, walkErr |-> walkErr, opens |-> opens,
     readable |-> readable, text |-> text]

RECURSIVE WalkFrom(_, _)
\* The WalkDir callback applied to the entries from position i on: an entry
\* with an access error is skipped (return nil), so is a directory; a name
\* whose lower-cased extension is ".txt" is appended.  Paths are positions.
WalkFrom(entries, i) ==
    IF i > Len(entries) THEN <<>>
    ELSE IF entries[i].walkErr THEN WalkFrom(entries, i + 1)
    ELSE IF entries[i].type = "dir" THEN WalkFrom(entries, i + 1)
    ELSE IF ToLower(entries[i].ext) = ".txt" THEN <<i>> \o WalkFrom(entries, i + 1)
    ELSE WalkFrom(entries, i + 1)

\* Mutant: the callback returns the access error, which ends the walk
discoverTextFilesStrict(entries) ==
    IF \E i \in 1..Len(entries) : entries[i].walkErr
    THEN [files |-> <<>>, err |-> <<Layer("io", 0)>>]
    ELSE [files |-> WalkFrom(entries, 1), err |-> NoErr]

\* discoverTextFiles: the callback never returns an error, so WalkDir's is nil
discoverTextFiles(entries) == [files |-> WalkFrom(entries, 1), err |-> NoErr]

\* ProcessorStats{StartTime: time.Now()}: the counters and EndTime are zero
ZeroStats ==
    [FilesProcessed |-> 0, FilesSkipped |-> 0, ChunksCreated |-> 0, TotalErrors |-> 0,
     EndTime |-> "zero"]

\* Mutant: a failed file is counted as skipped but not as an error
FileFailedNoTotal(st) ==
    [st EXCEPT !.FilesSkipped = @ + 1]

\* Mutant: a written chunk is not counted
ChunkWrittenNotCounted(st) == st

\* processFile: p.stats.ChunksCreated++
ChunkWritten(st) == [st EXCEPT !.ChunksCreated = @ + 1]

\* Process: p.stats.FilesSkipped++; p.stats.TotalErrors++
FileFailed(st) ==
    [st EXCEPT !.FilesSkipped = @ + 1, !.TotalErrors = @ + 1]

\* Mutant: a failed health check is logged and the run goes on
HealthNeverFatal(err) == FALSE

\* Process: if err := p.embedder.HealthCheck(ctx); err != nil { return ... }
HealthFatal(err) == err # NoErr

\* Process returns err; the deferred writer.Close() runs when `deferred`.
ProcessReturns(err, deferred) ==
    /\ pc' = "Returned"
    /\ procErr' = err
    /\ writer' = IF deferred THEN Close(writer) ELSE writer

\* Mutant: the file loop runs over txtFiles from its end
CurrentFileReversed(files, i) == files[Len(files) + 1 - i]

\* Process: for i, filePath := range txtFiles
CurrentFile(files, i) == files[i]

\* Mutant: the chunk loop ignores the error of processChunk
ProcessChunkNeverFailed(err) == FALSE

\* processFile: if err := p.processChunk(ctx, relPath, chunk); err != nil { return ... }
ProcessChunkFailed(err) == err # NoErr

\* processFile: fmt.Errorf("failed to chunk file: %w", err)
ChunkFileErr(cause) == Wrap("failed to chunk file", 0, cause)

\* processFile / processChunk: fmt.Errorf("failed to process chunk %d: %w",
\* chunk.Index, fmt.Errorf(stage + ": %w", cause))
ProcessChunkErr(index, stage, cause) ==
    Wrap("failed to process chunk", index, Wrap(stage, 0, cause))

\* The line slog.Error("Failed to process file", "file", filePath, "error", err)
\* writes: the file and err.Error(), the whole chain of %w layers down to the
\* cause.
ErrorLine(file, err) == [file |-> file, err |-> err]

\* The file loop of Process after processFile returned err: a failed file
\* is logged and counted as skipped, and the loop continues.
FileLoopContinue(err) ==
    /\ stats' = IF err # NoErr THEN FileFailed(stats)
                ELSE [stats EXCEPT !.FilesProcessed = @ + 1]
    /\ errorLog' = IF err # NoErr
                   THEN Append(errorLog, ErrorLine(CurrentFile(txtFiles, fileIdx), err))
                   ELSE errorLog
    /\ fileIdx' = fileIdx + 1
    /\ pc' = "FileLoop"

\* main: cfg.Validate(); os.Exit(1) on error, else NewProcessor and Process
MainValidate ==
    /\ pc = "Validate"
    /\ \E mkdirOk \in BOOLEAN :
         LET v == Validate(cfg, outDir, mkdirOk) IN
         /\ outDir' = v.outDir
         /\ IF v.err # NoErr
            THEN pc' = "Exited" /\ exitCode' = 1
            ELSE pc' = "HealthCheck" /\ UNCHANGED exitCode
    /\ UNCHANGED <<envVars, testVars, cancelPhase, embVars, outFile, writer, loopVars,
                   stats, healthChecks, healthErr, embedCalls, procErr, errorLog, summary>>

\* Process: p.embedder.HealthCheck(ctx)
ProcHealthCheck ==
    /\ pc = "HealthCheck"
    /\ healthChecks' = healthChecks + 1
    /\ \E resp \in HealthResponses :
         /\ healthErr' = HealthCheck(resp)
         /\ IF HealthFatal(HealthCheck(resp))
            THEN ProcessReturns(Wrap("Ollama API health check failed", 0,
                                     HealthCheck(resp)), FALSE)
            ELSE pc' = "NewWriter" /\ UNCHANGED <<procErr, writer>>
    /\ UNCHANGED <<envVars, testVars, cancelPhase, embVars, outDir, outFile, loopVars,
                   stats, embedCalls, exitCode, errorLog, summary>>

\* Mutant: Process goes on when NewWriter failed
WriterNeverFatal(err) == FALSE

\* Process: if err != nil { return fmt.Errorf("failed to initialize writer: %w", err) }
WriterFatal(err) == err # NoErr

\* Process: writer, err := NewWriter(p.config.Output); defer writer.Close()
ProcNewWriter ==
    /\ pc = "NewWriter"
    /\ \E mkdirOk, openOk \in BOOLEAN :
         LET w == NewWriter(outDir, outFile, mkdirOk, openOk) IN
         /\ outDir' = w.outDir
         /\ outFile' = w.outFile
         /\ IF WriterFatal(w.err)
            THEN ProcessReturns(Wrap("failed to initialize writer", 0, w.err), FALSE)
            ELSE pc' = "Discover" /\ writer' = w.writer /\ UNCHANGED procErr
    /\ UNCHANGED <<envVars, testVars, cancelPhase, embVars, loopVars, stats, healthChecks,
                   healthErr, embedCalls, exitCode, errorLog, summary>>

\* Mutant: a directory without .txt files is an error
NoFilesIsError == <<Layer("no .txt files found", 0)>>

\* Process: if len(txtFiles) == 0 { slog.Warn(...); return nil }
NoFilesErr == NoErr

\* Mutant: a file without chunks is an error
NoChunksIsError == <<Layer("file produced no chunks", 0), Layer("empty", 0)>>

\* processFile: if len(chunks) == 0 { slog.Warn(...); return nil }
NoChunksErr == NoErr

\* Process: txtFiles, err := p.discoverTextFiles(); return on err, return nil
\* when nothing was found
ProcDiscover ==
    /\ pc = "Discover"
    /\ LET d == discoverTextFiles(tree) IN
       /\ txtFiles' = d.files
       /\ IF d.err # NoErr
          THEN ProcessReturns(Wrap("failed to discover text files", 0, d.err), TRUE)
          ELSE IF Len(d.files) = 0
          THEN ProcessReturns(NoFilesErr, TRUE)
          ELSE pc' = "FileLoop" /\ UNCHANGED <<procErr, writer>>
    /\ fileIdx' = 1
    /\ UNCHANGED <<envVars, testVars, cancelPhase, embVars, outDir, outFile, chunks, chunkIdx,
                   stats, healthChecks, healthErr, embedCalls, exitCode, errorLog, summary>>

\* Process: the file loop takes the next file; processFile chunks it
ProcFile ==
    /\ pc = "FileLoop"
    /\ fileIdx <= Len(txtFiles)
    /\ ~OpenBlocks(tree[CurrentFile(txtFiles, fileIdx)])
    /\ LET c == ChunkFile(tree[CurrentFile(txtFiles, fileIdx)], cfg.ChunkSize) IN
       IF c.err # NoErr
       THEN FileLoopContinue(ChunkFileErr(c.err)) /\ UNCHANGED <<chunks, chunkIdx>>
       ELSE IF Len(c.chunks) = 0
       THEN FileLoopContinue(NoChunksErr) /\ UNCHANGED <<chunks, chunkIdx>>
       ELSE /\ chunks' = c.chunks
            /\ chunkIdx' = 1
            /\ pc' = "ChunkLoop"
            /\ UNCHANGED <<fileIdx, stats, errorLog>>
    /\ UNCHANGED <<envVars, testVars, cancelPhase, embVars, fsVars, txtFiles, healthChecks,
                   healthErr, embedCalls, procErr, exitCode, summary>>

\* processFile: the chunk loop; processChunk calls p.embedder.GetEmbedding
ProcChunk ==
    /\ pc = "ChunkLoop"
    /\ IF chunkIdx <= Len(chunks)
       THEN /\ EmbCallState
            /\ embedCalls' = embedCalls + 1
            /\ pc' = "Embedding"
            /\ UNCHANGED <<fileIdx, stats, errorLog>>
       ELSE /\ FileLoopContinue(NoErr)
            /\ UNCHANGED <<embVars, embedCalls>>
    /\ UNCHANGED <<envVars, testVars, cancelPhase, fsVars, txtFiles, chunks, chunkIdx,
                   healthChecks, healthErr, procErr, exitCode, summary>>

\* processChunk: GetEmbedding returned; on error processFile returns it
ProcEmbedded ==
    /\ pc = "Embedding"
    /\ epc = "ret"
    /\ epc' = "idle"
    /\ attempt' = 0
    /\ lastErr' = NoErr
    /\ lastReqErr' = NoErr
    /\ lastResp' = Aborted
    /\ waitLog' = <<>>
    /\ requests' = 0
    /\ IF ProcessChunkFailed(eret.err)
       THEN /\ FileLoopContinue(ProcessChunkErr(chunks[chunkIdx].Index,
                                                "failed to generate embedding", eret.err))
            /\ eret' = [embedding |-> <<>>, err |-> NoErr]
       ELSE /\ pc' = "WriteRecord"
            /\ UNCHANGED <<eret, fileIdx, stats, errorLog>>
    /\ UNCHANGED <<envVars, testVars, cancelPhase, fsVars, txtFiles, chunks, chunkIdx,
                   healthChecks, healthErr, embedCalls, procErr, exitCode, summary>>

\* processChunk: p.writer.WriteRecord(sourceFile, chunk, embedding);
\* processFile: p.stats.ChunksCreated++
ProcWrite ==
    /\ pc = "WriteRecord"
    /\ \E outcome \in WriteOutcomes :
         LET w == WriteRecord(writer, outFile, CurrentFile(txtFiles, fileIdx),
                              chunks[chunkIdx], eret.embedding, outcome) IN
         /\ outFile' = w.outFile
         /\ IF ProcessChunkFailed(w.err)
            THEN /\ FileLoopContinue(ProcessChunkErr(chunks[chunkIdx].Index,
                                                     "failed to write record", w.err))
                 /\ UNCHANGED chunkIdx
            ELSE /\ stats' = ChunkWritten(stats)
                 /\ chunkIdx' = chunkIdx + 1
                 /\ pc' = "ChunkLoop"
                 /\ UNCHANGED <<fileIdx, errorLog>>
    /\ eret' = [embedding |-> <<>>, err |-> NoErr]
    /\ UNCHANGED <<envVars, testVars, cancelPhase, epc, attempt, lastErr, requests,
                   lastReqErr, lastResp, waitLog, outDir, writer, txtFiles, chunks,
                   healthChecks, healthErr, embedCalls, procErr, exitCode, summary>>

\* printSummary: the counters of the "Processing completed" line
PrintSummary(st) ==
    [files_processed |-> st.FilesProcessed, files_skipped |-> st.FilesSkipped,
     chunks_created |-> st.ChunksCreated, total_errors |-> st.TotalErrors]

\* Process: the file loop is over; p.stats.EndTime, printSummary, return nil
ProcFinalize ==
    /\ pc = "FileLoop"
    /\ fileIdx > Len(txtFiles)
    /\ stats' = [stats EXCEPT !.EndTime = "set"]
    /\ summary' = Append(summary, PrintSummary(stats'))
    /\ ProcessReturns(NoErr, TRUE)
    /\ UNCHANGED <<envVars, testVars, cancelPhase, embVars, outDir, outFile, loopVars,
                   healthChecks, healthErr, embedCalls, exitCode, errorLog>>

\* main: os.Exit(1) when Process returned an error, else return (status 0)
MainExit ==
    /\ pc = "Returned"
    /\ pc' = "Exited"
    /\ exitCode' = IF procErr # NoErr THEN 1 ELSE 0
    /\ UNCHANGED <<envVars, testVars, cancelPhase, embVars, fsVars, loopVars, stats,
                   healthChecks, healthErr, embedCalls, procErr, errorLog, summary>>

----------------------------------------------------------------------------
(* A client of Writer, as in writer_test.go: it opens the output path,      *)
(* writes records, closes, and may open the same path again (a later run).  *)

\* Calls the client makes
MaxWriterOps == 5

\* The chunks the client writes
TestChunks ==
    {Chunk(<<"a">>, 1, 0), Chunk(<<"b", "<", "\"">>, 12, 1), Chunk(<<"a", InvalidByte>>, 1, 2)}

\* writer, err := NewWriter(outputPath)
TestNewWriter ==
    /\ entry = "Writer"
    /\ wOps < MaxWriterOps
    /\ writer # "open"
    /\ \E mkdirOk, openOk \in BOOLEAN :
         LET w == NewWriter(outDir, outFile, mkdirOk, openOk) IN
         /\ outDir' = w.outDir
         /\ outFile' = w.outFile
         /\ writer' = IF w.err = NoErr THEN w.writer ELSE writer
         /\ wErr' = w.err
         /\ wOpens' = IF w.err = NoErr THEN wOpens + 1 ELSE wOpens
    /\ wOps' = wOps + 1
    /\ wLastOp' = "NewWriter"
    /\ UNCHANGED <<envVars, cancelPhase, embVars, pc, loopVars, runVars, chunkerTestVars,
                   embedderTestVars, discoveryTestVars,
                   chunkLoopVars>>

\* err = writer.WriteRecord("test.txt", chunk, embedding)
TestWriteRecord ==
    /\ entry = "Writer"
    /\ wOps < MaxWriterOps
    /\ writer \in {"open", "closed"}
    /\ \E chunk \in TestChunks, outcome \in WriteOutcomes :
         LET w == WriteRecord(writer, outFile, 1, chunk, <<1, 2>>, outcome) IN
         /\ outFile' = w.outFile
         /\ wErr' = w.err
    /\ wOps' = wOps + 1
    /\ wLastOp' = "WriteRecord"
    /\ UNCHANGED <<envVars, cancelPhase, embVars, pc, outDir, writer, loopVars, runVars,
                   wOpens, chunkerTestVars, embedderTestVars, discoveryTestVars,
                   chunkLoopVars>>

\* writer.Close(); closing a closed file returns os.ErrClosed
TestClose ==
    /\ entry = "Writer"
    /\ wOps < MaxWriterOps
    /\ writer \in {"open", "closed"}
    /\ writer' = Close(writer)
    /\ wErr' = IF writer = "closed" THEN <<Layer("file already closed", 0)>> ELSE NoErr
    /\ wOps' = wOps + 1
    /\ wLastOp' = "Close"
    /\ UNCHANGED <<envVars, cancelPhase, embVars, pc, outDir, outFile, loopVars, runVars,
                   wOpens, chunkerTestVars, embedderTestVars, discoveryTestVars,
                   chunkLoopVars>>

----------------------------------------------------------------------------
(* A caller of Chunker.ChunkText, as in chunker_test.go.                    *)

\* Longest text passed to ChunkText
MaxTextLen == 7

\* Largest chunk size of the Chunker
MaxChunkSize == 3

\* The characters of the texts: a letter, a digit, a space and punctuation
Alphabet == {"a", "1", " ", "."}

\* Longest text that holds runs of 32768 letters
MaxLongTextLen == 6

\* The texts passed to ChunkText: the short ones, and those that can hold a
\* token of MaxScanTokenSize bytes or more
Texts ==
    UNION {[1..n -> Alphabet] : n \in 0..MaxTextLen}
    \cup UNION {[1..n -> Alphabet \cup {Run32K}] : n \in 0..MaxLongTextLen}

\* chunks := NewChunker(ctSize).ChunkText(ctText)
TestChunkText ==
    /\ entry = "ChunkText"
    /\ ~ctResult.called
    /\ ctResult' = [called |-> TRUE, chunks |-> ChunkText(ctText, ctSize)]
    /\ UNCHANGED <<envVars, cancelPhase, embVars, procVars, writerTestVars, ctText, ctSize,
                   ctAgain, embedderTestVars, discoveryTestVars,
                   chunkLoopVars>>

RECURSIVE ChunkTexts(_)
\* The texts of the chunks, in order
ChunkTexts(cs) == IF cs = <<>> THEN <<>> ELSE <<Head(cs).Text>> \o ChunkTexts(Tail(cs))

\* again := NewChunker(ctSize).ChunkText(strings.Join(texts of chunks, " "))
TestRechunk ==
    /\ entry = "ChunkText"
    /\ ctResult.called
    /\ ~ctAgain.called
    /\ ctAgain' = [called |-> TRUE,
                   chunks |-> ChunkText(Join(ChunkTexts(ctResult.chunks), <<" ">>), ctSize)]
    /\ UNCHANGED <<envVars, cancelPhase, embVars, procVars, writerTestVars, ctText, ctSize,
                   ctResult, embedderTestVars, discoveryTestVars,
                   chunkLoopVars>>

----------------------------------------------------------------------------
(* Initial states                                                           *)

\* Longest directory listing explored
MaxEntries == 2

\* The longest text of the stepwise ChunkText call
MaxLoopTextLen == 5

\* The most loop bodies the stepwise ChunkText call is followed through
MaxLoopIters == 4

LoopTexts == UNION {[1..n -> Alphabet] : n \in 0..MaxLoopTextLen}

\* NewChunker(chunkSize) takes any int
LoopChunkSizes == (-1)..MaxChunkSize

\* Mutant: the loop does not advance
NextIStuck(i, chunkSize) == i

\* for ...; i += c.chunkSize
NextI(i, chunkSize) == i + chunkSize

\* ChunkText up to the loop: the three early returns, then
\* var chunks []Chunk; chunkIndex := 0; i := 0
ChunkTextEnter ==
    /\ entry = "ChunkLoop"
    /\ clPc = "start"
    /\ LET text == TrimSpace(ctText)
           words == tokenizeWords(text)
       IN  /\ clWords' = words
           /\ IF text = <<>> \/ Len(words) = 0
              THEN clPc' = "done" /\ ctResult' = [called |-> TRUE, chunks |-> <<>>]
              ELSE IF Len(words) <= ctSize
              THEN /\ clPc' = "done"
                   /\ ctResult' = [called |-> TRUE,
                                   chunks |-> <<Chunk(text, Len(words), 0)>>]
              ELSE clPc' = "loop" /\ UNCHANGED ctResult
    /\ UNCHANGED <<envVars, cancelPhase, embVars, procVars, writerTestVars, ctText, ctSize,
                   ctAgain, embedderTestVars, discoveryTestVars, clI, clIndex, clChunks,
                   clIters>>

\* One test of the loop condition i < len(words) and, when it holds, one
\* loop body followed by i += c.chunkSize; words[i:end] panics when end < i.
ChunkTextLoop ==
    /\ entry = "ChunkLoop"
    /\ clPc = "loop"
    /\ IF clI >= Len(clWords)
       THEN /\ clPc' = "done"
            /\ ctResult' = [called |-> TRUE, chunks |-> clChunks]
            /\ UNCHANGED <<clI, clIndex, clChunks, clIters>>
       ELSE /\ clIters < MaxLoopIters
            /\ clIters' = clIters + 1
            /\ LET end == ChunkEnd(clI, ctSize, Len(clWords)) IN
               IF end < clI
               THEN clPc' = "panic" /\ UNCHANGED <<ctResult, clI, clIndex, clChunks>>
               ELSE LET chunkWords == SubSeq(clWords, clI + 1, end)
                        chunkText == TrimSpace(Join(chunkWords, WordSep))
                    IN  /\ IF chunkText # <<>>
                           THEN /\ clChunks' = Append(clChunks,
                                                      Chunk(chunkText, Len(chunkWords), clIndex))
                                /\ clIndex' = NextChunkIndex(clIndex)
                           ELSE UNCHANGED <<clChunks, clIndex>>
                        /\ clI' = NextI(clI, ctSize)
                        /\ UNCHANGED <<clPc, ctResult>>
    /\ UNCHANGED <<envVars, cancelPhase, embVars, procVars, writerTestVars, ctText, ctSize,
                   ctAgain, embedderTestVars, discoveryTestVars, clWords>>

\* Embedder client: the most requests it sends
MaxEmbedderOps == 3

\* The values of OLLAMA_HOST: unset, or the host of the test
OllamaHosts == {"", "http://test.example.com:8080"}

\* What GET /api/tags may answer to the Embedder client
TestHealthResponses ==
    {NetErr} \cup {HttpResponse(s, Body(TRUE, <<>>)) : s \in {200, 201, 204, 299, 300, 404, 500}}

NoEmbedder == [made |-> FALSE, baseURL |-> "", model |-> ""]

\* embedder := NewEmbedder("test-model"), as NewProcessor does with cfg.Model
TestNewEmbedder ==
    /\ entry = "NewEmbedder"
    /\ ~embedder.made
    /\ \E model \in {"nomic", "test-model"} : embedder' = NewEmbedder(model)
    /\ UNCHANGED <<envVars, cancelPhase, embVars, procVars, writerTestVars, chunkerTestVars,
                   ollamaHost, sent, etLast, discoveryTestVars,
                   chunkLoopVars>>

\* The base URLs callers hand to SetBaseURL
TestBaseURLs == {"http://custom.example.com:8080", "http://localhost:99999"}

\* func (e *Embedder) SetBaseURL(url string) { e.baseURL = url }
SetBaseURL(e, url) == [e EXCEPT !.baseURL = url]

\* embedder.SetBaseURL(newURL)
TestSetBaseURL ==
    /\ entry = "NewEmbedder"
    /\ embedder.made
    /\ \E url \in TestBaseURLs : embedder' = SetBaseURL(embedder, url)
    /\ UNCHANGED <<envVars, cancelPhase, embVars, procVars, writerTestVars, chunkerTestVars,
                   ollamaHost, sent, etLast, discoveryTestVars,
                   chunkLoopVars>>

\* err := embedder.HealthCheck(ctx)
TestHealthCheck ==
    /\ entry = "NewEmbedder"
    /\ embedder.made
    /\ Len(sent) < MaxEmbedderOps
    /\ sent' = Append(sent, ApiURL(embedder.baseURL, "/api/tags"))
    /\ \E resp \in TestHealthResponses :
         etLast' = [op |-> "HealthCheck", resp |-> resp, err |-> HealthCheck(resp)]
    /\ UNCHANGED <<envVars, cancelPhase, embVars, procVars, writerTestVars, chunkerTestVars,
                   ollamaHost, embedder, discoveryTestVars,
                   chunkLoopVars>>

\* _, err := embedder.requestEmbedding(ctx, text)
TestRequestEmbedding ==
    /\ entry = "NewEmbedder"
    /\ embedder.made
    /\ Len(sent) < MaxEmbedderOps
    /\ sent' = Append(sent, ApiURL(embedder.baseURL, "/api/embeddings"))
    /\ \E resp \in Responses :
         etLast' = [op |-> "requestEmbedding", resp |-> resp,
                    err |-> RequestEmbedding(resp, FALSE, FALSE).err]
    /\ UNCHANGED <<envVars, cancelPhase, embVars, procVars, writerTestVars, chunkerTestVars,
                   ollamaHost, embedder, discoveryTestVars,
                   chunkLoopVars>>

\* The longest directory listing the discovery caller walks
MaxTreeLen == 2

\* Directory entries by name, kind and access error; d.IsDir() is false for
\* a symbolic link, whatever it points to, and for a FIFO.
WalkPool ==
    { DirEntry(ext, type, walkErr, TRUE, TRUE, <<"a">>) :
        ext \in {".txt", ".TXT", ".md"}, type \in {"file", "dir", "symlink", "fifo"},
        walkErr \in BOOLEAN }

WalkTrees == UNION {[1..n -> WalkPool] : n \in 0..MaxTreeLen}

\* txtFiles, err := p.discoverTextFiles()
TestDiscover ==
    /\ entry = "discoverTextFiles"
    /\ ~dResult.called
    /\ dResult' = [called |-> TRUE, files |-> discoverTextFiles(tree).files,
                   err |-> discoverTextFiles(tree).err]
    /\ UNCHANGED <<envVars, cancelPhase, embVars, procVars, writerTestVars, chunkerTestVars,
                   embedderTestVars,
                   chunkLoopVars>>

TwoChunkText == <<"a", " ", "a", " ", "b">>

\* Among the entries: a file of punctuation, a file that is one token of
\* 65536 letters, a file os.Open refuses, and a link to a directory, which
\* opens and on which io.ReadAll fails.
EntryPool ==
    { DirEntry(".txt", "file", FALSE, TRUE, TRUE, TwoChunkText),
      DirEntry(".TXT", "file", FALSE, TRUE, TRUE, <<".">>),
      DirEntry(".txt", "file", FALSE, TRUE, TRUE, <<Run32K, Run32K>>),
      DirEntry(".txt", "file", FALSE, FALSE, FALSE, <<>>),
      DirEntry(".txt", "symlink", FALSE, TRUE, FALSE, <<>>),
      DirEntry(".txt", "file", TRUE, TRUE, TRUE, <<>>),
      DirEntry(".txt", "dir", FALSE, TRUE, FALSE, <<>>),
      DirEntry(".md", "file", FALSE, TRUE, TRUE, <<"a">>) }

Trees == UNION {[1..n -> EntryPool] : n \in 0..MaxEntries}

Configs ==
    [Directory : {"dir", "missing", "denied", "file"}, Model : {"", "nomic"}, ChunkSize : {0, 2}]

OldLine == Segment(VectorRecord(1, 0, Chunk(<<"b">>, 1, 0), <<1, 2>>), TRUE, TRUE)

InitEmbedder ==
    /\ attempt = 0
    /\ lastErr = NoErr
    /\ eret = [embedding |-> <<>>, err |-> NoErr]
    /\ requests = 0
    /\ lastReqErr = NoErr
    /\ lastResp = Aborted
    /\ waitLog = <<>>

InitProcessor ==
    /\ writer = "nil"
    /\ txtFiles = <<>>
    /\ fileIdx = 1
    /\ chunks = <<>>
    /\ chunkIdx = 1
    /\ stats = ZeroStats
    /\ healthChecks = 0
    /\ healthErr = NoErr
    /\ embedCalls = 0
    /\ procErr = NoErr
    /\ exitCode = -1
    /\ errorLog = <<>>
    /\ summary = <<>>

\* A caller invokes GetEmbedding with a context of its own.
InitGetEmbedding ==
    /\ entry = "GetEmbedding"
    /\ ctx \in {"background", "cancellable"}
    /\ cancelPhase \in {"none", "before"}
    /\ epc = "loop"
    /\ pc = "Caller"
    /\ cfg = [Directory |-> "dir", Model |-> "nomic", ChunkSize |-> 2]
    /\ tree = <<>>
    /\ outDir = FALSE
    /\ outFile = NoFile

\* The program is started; Process uses ctx := context.Background().
InitMain ==
    /\ entry = "main"
    /\ ctx = "background"
    /\ cancelPhase = "none"
    /\ epc = "idle"
    /\ pc = "Validate"
    /\ cfg \in Configs
    /\ tree \in (IF cfg.Directory = "dir" THEN Trees ELSE {<<>>})
    /\ \/ outDir = FALSE /\ outFile = NoFile
       \/ outDir = TRUE /\ outFile \in {NoFile, [exists |-> TRUE, lines |-> <<OldLine>>]}

\* No Writer client
InitNoWriterTest ==
    /\ wOps = 0
    /\ wLastOp = "none"
    /\ wErr = NoErr
    /\ wOpens = 0

\* No ChunkText caller
InitNoChunkerTest ==
    /\ ctText = <<>>
    /\ ctSize = 1
    /\ ctResult = [called |-> FALSE, chunks |-> <<>>]
    /\ ctAgain = [called |-> FALSE, chunks |-> <<>>]

\* No Embedder client
InitNoEmbedderTest ==
    /\ ollamaHost = ""
    /\ embedder = NoEmbedder
    /\ sent = <<>>
    /\ etLast = [op |-> "none", resp |-> Aborted, err |-> NoErr]

\* No discovery caller
InitNoDiscoveryTest == dResult = [called |-> FALSE, files |-> <<>>, err |-> NoErr]

\* No stepwise ChunkText call
InitNoChunkLoop ==
    /\ clPc = "idle"
    /\ clWords = <<>>
    /\ clI = 0
    /\ clIndex = 0
    /\ clChunks = <<>>
    /\ clIters = 0

\* Neither the embedder nor the processor is running
InitNoProgram ==
    /\ InitEmbedder
    /\ InitProcessor
    /\ ctx = "background"
    /\ cancelPhase = "none"
    /\ epc = "idle"
    /\ pc = "Caller"
    /\ cfg = [Directory |-> "dir", Model |-> "nomic", ChunkSize |-> 2]
    /\ tree = <<>>

Init ==
    /\ InitEmbedder
    /\ InitProcessor
    /\ InitNoWriterTest
    /\ InitNoChunkerTest
    /\ InitNoEmbedderTest
    /\ InitNoDiscoveryTest
    /\ InitNoChunkLoop
    /\ (InitGetEmbedding \/ InitMain)
    /\ outFile0 = outFile

\* The Writer client starts with no Writer; the output path may hold the
\* records of an earlier run.
InitWriter ==
    /\ InitNoProgram
    /\ InitNoWriterTest
    /\ InitNoChunkerTest
    /\ InitNoEmbedderTest
    /\ InitNoDiscoveryTest
    /\ InitNoChunkLoop
    /\ entry = "Writer"
    /\ \/ outDir = FALSE /\ outFile = NoFile
       \/ outDir = TRUE /\ outFile \in {NoFile, [exists |-> TRUE, lines |-> <<OldLine>>]}
    /\ outFile0 = outFile

\* The ChunkText caller has chosen a text and a chunk size.
InitChunker ==
    /\ InitNoProgram
    /\ InitNoWriterTest
    /\ InitNoEmbedderTest
    /\ InitNoDiscoveryTest
    /\ InitNoChunkLoop
    /\ entry = "ChunkText"
    /\ outDir = FALSE
    /\ outFile = NoFile
    /\ outFile0 = outFile
    /\ ctText \in Texts
    /\ ctSize \in 1..MaxChunkSize
    /\ ctResult = [called |-> FALSE, chunks |-> <<>>]
    /\ ctAgain = [called |-> FALSE, chunks |-> <<>>]

\* The Embedder client runs with OLLAMA_HOST set or unset.
InitNewEmbedder ==
    /\ InitNoProgram
    /\ InitNoWriterTest
    /\ InitNoChunkerTest
    /\ InitNoDiscoveryTest
    /\ InitNoChunkLoop
    /\ entry = "NewEmbedder"
    /\ outDir = FALSE
    /\ outFile = NoFile
    /\ outFile0 = outFile
    /\ ollamaHost \in OllamaHosts
    /\ embedder = NoEmbedder
    /\ sent = <<>>
    /\ etLast = [op |-> "none", resp |-> Aborted, err |-> NoErr]

\* The discovery caller walks one of the directory listings.
InitDiscovery ==
    /\ InitEmbedder
    /\ InitProcessor
    /\ InitNoWriterTest
    /\ InitNoChunkerTest
    /\ InitNoEmbedderTest
    /\ InitNoDiscoveryTest
    /\ InitNoChunkLoop
    /\ entry = "discoverTextFiles"
    /\ ctx = "background"
    /\ cancelPhase = "none"
    /\ epc = "idle"
    /\ pc = "Caller"
    /\ cfg = [Directory |-> "dir", Model |-> "nomic", ChunkSize |-> 2]
    /\ tree \in WalkTrees
    /\ outDir = FALSE
    /\ outFile = NoFile
    /\ outFile0 = outFile

\* ChunkText is called with a text and a Chunker of any chunk size.
InitChunkLoop ==
    /\ InitNoProgram
    /\ InitNoWriterTest
    /\ InitNoEmbedderTest
    /\ InitNoDiscoveryTest
    /\ entry = "ChunkLoop"
    /\ outDir = FALSE
    /\ outFile = NoFile
    /\ outFile0 = outFile
    /\ ctText \in LoopTexts
    /\ ctSize \in LoopChunkSizes
    /\ ctResult = [called |-> FALSE, chunks |-> <<>>]
    /\ ctAgain = [called |-> FALSE, chunks |-> <<>>]
    /\ clPc = "start"
    /\ clWords = <<>>
    /\ clI = 0
    /\ clIndex = 0
    /\ clChunks = <<>>
    /\ clIters = 0

\* The most directory entries of a run followed to its end
MaxRunEntries == 2

\* A file of two chunks, a file os.Open refuses, a link to a directory, on
\* which io.ReadAll fails, and a FIFO that nobody writes to
RunPool ==
    { DirEntry(".txt", "file", FALSE, TRUE, TRUE, TwoChunkText),
      DirEntry(".txt", "file", FALSE, FALSE, FALSE, <<>>),
      DirEntry(".txt", "symlink", FALSE, TRUE, FALSE, <<>>),
      DirEntry(".txt", "fifo", FALSE, TRUE, TRUE, <<>>) }

RunTrees == UNION {[1..n -> RunPool] : n \in 0..MaxRunEntries}

RunConfigs == [Directory : {"dir", "missing"}, Model : {"nomic"}, ChunkSize : {2}]

\* The program is started on one of the run inputs, with no output file yet.
InitMainRun ==
    /\ entry = "main"
    /\ ctx = "background"
    /\ cancelPhase = "none"
    /\ epc = "idle"
    /\ pc = "Validate"
    /\ cfg \in RunConfigs
    /\ tree \in (IF cfg.Directory = "dir" THEN RunTrees ELSE {<<>>})
    /\ outDir = FALSE
    /\ outFile = NoFile

\* A run of the program, or a GetEmbedding call of another caller
InitRun ==
    /\ InitEmbedder
    /\ InitProcessor
    /\ InitNoWriterTest
    /\ InitNoChunkerTest
    /\ InitNoEmbedderTest
    /\ InitNoDiscoveryTest
    /\ InitNoChunkLoop
    /\ (InitGetEmbedding \/ InitMainRun)
    /\ outFile0 = outFile

Next ==
    \/ EmbLoop
    \/ EmbWaitCancelled
    \/ EmbWaitElapsed
    \/ EmbDoReturns
    \/ EmbBodyRead
    \/ Cancel
    \/ MainValidate
    \/ ProcHealthCheck
    \/ ProcNewWriter
    \/ ProcDiscover
    \/ ProcFile
    \/ ProcChunk
    \/ ProcEmbedded
    \/ ProcWrite
    \/ ProcFinalize
    \/ MainExit

Spec == Init /\ [][Next]_vars

\* The process keeps running: a step that can be taken is taken, and the
\* embedding service answers or fails every request.
SpecFair == InitRun /\ [][Next]_vars /\ WF_vars(Next)

NextWriter ==
    \/ TestNewWriter
    \/ TestWriteRecord
    \/ TestClose

SpecWriter == InitWriter /\ [][NextWriter]_vars

NextChunker ==
    \/ TestChunkText
    \/ TestRechunk

SpecChunker == InitChunker /\ [][NextChunker]_vars

NextEmbedder ==
    \/ TestNewEmbedder
    \/ TestSetBaseURL
    \/ TestHealthCheck
    \/ TestRequestEmbedding

SpecEmbedder == InitNewEmbedder /\ [][NextEmbedder]_vars

NextDiscovery == TestDiscover

NextChunkLoop ==
    \/ ChunkTextEnter
    \/ ChunkTextLoop

\* The goroutine that runs ChunkText keeps running
SpecChunkLoop == InitChunkLoop /\ [][NextChunkLoop]_vars /\ WF_vars(NextChunkLoop)

SpecDiscovery == InitDiscovery /\ [][NextDiscovery]_vars

----------------------------------------------------------------------------
(* Properties                                                               *)

\* The message of the outermost layer of an error
ErrMsg(err) == IF err = NoErr THEN "" ELSE err[1].msg

RECURSIVE SeqSum(_)
SeqSum(q) == IF q = <<>> THEN 0 ELSE Head(q) + SeqSum(Tail(q))

Returned == epc = "ret"

\* A call that returned ctx.Err() from the wait that followed a failed
\* request: it has made as many requests as attempts failed, at most retries.
CancelledInWait ==
    /\ ctxDone
    /\ eret.err = CtxCanceled
    /\ requests = attempt
    /\ attempt \in 1..retries

\* A call that gave up: retries + 1 requests, all failed
GaveUp ==
    /\ requests = retries + 1
    /\ attempt = retries + 1
    /\ ErrMsg(eret.err) = "failed to get embedding after attempts"

\* C1: GetEmbedding issues at most R+1 requests for one text; a successful
\* return follows the first successful request with no request after it
\* (every earlier request failed); a call in which every request failed
\* returns the aggregated error after exactly R+1 requests, or, once the
\* context is cancelled, ctx.Err() from a wait after 1 to R requests.  A call
\* whose context is never cancelled and whose requests all fail makes
\* exactly R+1 requests.
C1_RequestBudget ==
    /\ requests <= retries + 1
    /\ (Returned /\ eret.err = NoErr) =>
           /\ requests = attempt + 1
           /\ eret.embedding = lastResp.body.embedding
    /\ (Returned /\ eret.err # NoErr) => (GaveUp \/ CancelledInWait)
    /\ (Returned /\ eret.err # NoErr /\ ~ctxDone) => GaveUp

\* Every request failed, the context was never cancelled, and the call
\* returned the aggregated error after retries + 1 requests.
C1_Witness ==
    /\ Returned
    /\ ~ctxDone
    /\ eret.err # NoErr
    /\ GaveUp

\* C1 as stated: at most R+1 requests, a success ends the call at its
\* first successful request, and a call in which every request failed
\* returns an error after exactly R+1 requests.
C1_RequestBudgetAsStated ==
    /\ requests <= retries + 1
    /\ (Returned /\ eret.err = NoErr) =>
           /\ requests = attempt + 1
           /\ eret.embedding = lastResp.body.embedding
    /\ (Returned /\ eret.err # NoErr) => requests = retries + 1

\* C2: no wait precedes the first request, the wait before retry k is
\* backoff * 2^(k-1), the waits double, and a fully failed call has waited
\* 1s, 2s, 4s, in total backoff * (2^R - 1).
C2_BackoffSchedule ==
    /\ \A k \in 1..Len(waitLog) : waitLog[k] = backoff * 2^(k - 1)
    /\ \A k \in 2..Len(waitLog) : waitLog[k] = 2 * waitLog[k - 1]
    /\ Len(waitLog) <= requests
    /\ requests <= Len(waitLog) + 1
    /\ (Returned /\ attempt = retries + 1) =>
           /\ waitLog = <<1, 2, 4>>
           /\ SeqSum(waitLog) = backoff * (2^retries - 1)

C2_Witness ==
    /\ Returned
    /\ attempt = retries + 1
    /\ waitLog = <<1, 2, 4>>

\* C3: once the cancellation signal has fired during a wait between
\* attempts, GetEmbedding does nothing but return ctx.Err(): the retry that
\* was pending is not requested.
C3_CancelDuringWait ==
    (ctx = "cancellable" /\ cancelPhase = "wait") =>
        /\ epc \in {"wait", "ret"}
        /\ requests = Len(waitLog)
        /\ Returned => eret = [embedding |-> <<>>, err |-> CtxCanceled]

C3_Witness ==
    /\ ctx = "cancellable"
    /\ cancelPhase = "wait"
    /\ Returned
    /\ eret.err = CtxCanceled

\* C4: a cancellation that fires while a request is in flight, on any
\* attempt, makes GetEmbedding return the cancellation error itself and not
\* the aggregated "failed after N attempts" error.
C4_CancelInFlightDistinct ==
    (ctx = "cancellable" /\ cancelPhase = "inflight" /\ Returned) =>
        eret.err = CtxCanceled

\* C5: a run during which the cancellation signal fired in a retry wait or
\* an in-flight request returns a cancellation error from Process.
C5_CancelEndsRun ==
    (entry = "main" /\ cancelPhase \in {"wait", "inflight"}
        /\ pc \in {"Returned", "Exited"}) =>
        ErrorsIs(procErr, CtxCanceled)

\* C6: when all R+1 attempts failed, the error returned is the aggregated
\* error wrapping the error of the last request.
C6_LastCausePreserved ==
    (Returned /\ attempt = retries + 1) =>
        /\ ErrMsg(eret.err) = "failed to get embedding after attempts"
        /\ Tail(eret.err) = lastReqErr
        /\ lastReqErr # NoErr

\* All retries + 1 requests failed, the last one because the context was
\* cancelled after client.Do had returned a 200 response and before its
\* body was read: the aggregated error wraps "failed to decode response:
\* context canceled", which no earlier attempt of the call returned.
C6_Witness ==
    /\ Returned
    /\ attempt = retries + 1
    /\ cancelPhase = "body"
    /\ lastResp = HttpResponse(200, Body(TRUE, <<1, 2>>))
    /\ lastReqErr = Wrap("failed to decode response", 0, CtxCanceled)
    /\ eret.err = AggregatedErr(lastReqErr)

\* A response that the protocol counts as an error: network failure,
\* non-2xx status, malformed body or empty embedding array.
FailingResponse(resp) ==
    \/ resp.kind = "neterr"
    \/ /\ resp.kind = "http"
       /\ \/ resp.status < 200
          \/ resp.status > 299
          \/ ~resp.body.json
          \/ resp.body.embedding = <<>>

\* requestEmbedding has returned for the request whose answer is lastResp.
RequestOver == epc \notin {"inflight", "body"}

\* C7: a request answered by a network failure, a non-2xx status, a
\* malformed body or an empty embedding array is a failed attempt, once
\* requestEmbedding has returned for it, whether or not the context was
\* cancelled meanwhile, and GetEmbedding never returns success with an
\* empty embedding.
C7_FailedAttemptKinds ==
    /\ (FailingResponse(lastResp) /\ RequestOver) =>
           /\ ~(Returned /\ eret.err = NoErr)
           /\ lastReqErr # NoErr
           /\ attempt >= 1
    /\ eret.err = NoErr /\ (Returned \/ pc = "WriteRecord") => eret.embedding # <<>>

C7_Witness ==
    /\ epc = "loop"
    /\ lastResp = HttpResponse(200, Body(TRUE, <<>>))
    /\ ErrMsg(lastReqErr) = "received empty embedding"

\* C8: the health check is made once per run and before anything else, and
\* when it fails Process returns the health-check error having requested no
\* embedding, opened no writer, left the output file as it was, discovered
\* no file and created no chunk.
C8_HealthCheckFirst ==
    /\ healthChecks <= 1
    /\ pc \in {"NewWriter", "Discover", "FileLoop", "ChunkLoop", "Embedding",
               "WriteRecord", "Returned"} => healthChecks = 1
    /\ healthChecks = 0 =>
           /\ writer = "nil" /\ outFile = outFile0
           /\ embedCalls = 0 /\ txtFiles = <<>> /\ chunks = <<>> /\ stats = ZeroStats
    /\ healthErr # NoErr =>
           /\ pc \in {"Returned", "Exited"}
           /\ ErrMsg(procErr) = "Ollama API health check failed"
           /\ Tail(procErr) = healthErr
           /\ writer = "nil" /\ outFile = outFile0
           /\ embedCalls = 0 /\ requests = 0
           /\ txtFiles = <<>> /\ chunks = <<>> /\ stats = ZeroStats

C8_Witness ==
    /\ healthErr # NoErr
    /\ pc = "Exited"
    /\ exitCode = 1
    /\ Len(tree) > 0

\* C9: Process returns an error only for a failed health check or a writer
\* that cannot be opened; once the writer is open nothing makes it return an
\* error, and the program then exits with status 0 whatever total_errors is.
C9_OnlyFatalErrors ==
    /\ procErr # NoErr =>
           /\ ErrMsg(procErr) \in {"Ollama API health check failed",
                                   "failed to initialize writer"}
           /\ healthErr # NoErr \/ writer = "nil"
    /\ writer # "nil" => procErr = NoErr
    /\ (pc = "Exited" /\ writer # "nil") => exitCode = 0

C9_Witness ==
    /\ pc = "Exited"
    /\ exitCode = 0
    /\ stats.TotalErrors > 0
    /\ \E i \in 1..Len(tree) : tree[i].walkErr

\* C10: the exit status is 0 only when every file was processed, 1 on a
\* critical error (configuration, API unavailable) and 2 when the run
\* completed but some files failed.
C10_ExitCodes ==
    pc = "Exited" =>
        exitCode = IF healthChecks = 0 \/ procErr # NoErr THEN 1
                   ELSE IF stats.FilesSkipped > 0 THEN 2
                   ELSE 0

\* ChunkText tabulated over the texts and the valid chunk sizes of the
\* inputs of a run
ChunkTable ==
    [t \in {e.text : e \in EntryPool},
     size \in {c.ChunkSize : c \in {x \in Configs : x.ChunkSize >= 1}}
        |-> ChunkText(t, size)]

\* The chunks ChunkFile gives for directory entry f in this run
ChunksOfFile(f) ==
    IF tree[f].opens /\ tree[f].readable THEN ChunkTable[tree[f].text, cfg.ChunkSize] ELSE <<>>

\* The lines this run appended to the output file
NewLines == SubSeq(outFile.lines, Len(outFile0.lines) + 1, Len(outFile.lines))

\* The positions in the error log of the files that failed to be chunked
FailedAtChunk ==
    {j \in 1..Len(errorLog) : ErrMsg(errorLog[j].err) = "failed to chunk file"}

\* The discovered files that can / cannot be opened and read
ReadableFiles ==
    {i \in 1..Len(txtFiles) : tree[txtFiles[i]].opens /\ tree[txtFiles[i]].readable}

UnreadableFiles == (1..Len(txtFiles)) \ ReadableFiles

\* The step of ChunkFile the log line at position j names
FailedStep(j) == errorLog[j].err[2].msg

\* C11: a discovered file whose chunking fails is logged and skipped: it has
\* no record in the output, files_skipped and total_errors count it once
\* each, files_processed does not count it, and the next file is handled;
\* when the run ends and no file failed at a later step, the summary reports
\* the m readable files as processed and the k unreadable ones as skipped.
C11_ChunkFailureSkipsFile ==
    entry = "main" =>
        /\ \A i \in UnreadableFiles : i < fileIdx =>
               /\ Cardinality({j \in FailedAtChunk : errorLog[j].file = txtFiles[i]}) = 1
               /\ \A l \in 1..Len(NewLines) : NewLines[l].rec.source_file # txtFiles[i]
        /\ \A j \in FailedAtChunk :
               LET f == tree[errorLog[j].file]
               IN  /\ ~(f.opens /\ f.readable)
                   /\ FailedStep(j) = "failed to open file" <=> ~f.opens
                   /\ FailedStep(j) = "failed to read file" <=> (f.opens /\ ~f.readable)
                   /\ errorLog[j].err[3].msg = "io"
        /\ stats.FilesSkipped = Len(errorLog)
        /\ stats.TotalErrors = Len(errorLog)
        /\ pc = "FileLoop" => stats.FilesProcessed + stats.FilesSkipped = fileIdx - 1
        /\ (pc \in {"Returned", "Exited"} /\ txtFiles # <<>>) =>
               /\ fileIdx = Len(txtFiles) + 1
               /\ stats.FilesProcessed + stats.FilesSkipped = Len(txtFiles)
               /\ Cardinality(FailedAtChunk) = Cardinality(UnreadableFiles)
               /\ Cardinality(FailedAtChunk) = Len(errorLog) =>
                      /\ stats.FilesProcessed = Cardinality(ReadableFiles)
                      /\ stats.FilesSkipped = Cardinality(UnreadableFiles)

C11_Witness ==
    /\ pc = "Exited"
    /\ Len(txtFiles) = 2
    /\ tree[txtFiles[1]].opens
    /\ ~tree[txtFiles[1]].readable
    /\ errorLog[1].err[2].msg = "failed to read file"
    /\ tree[txtFiles[2]].opens
    /\ tree[txtFiles[2]].readable
    /\ stats.FilesProcessed = 1
    /\ stats.FilesSkipped = 1
    /\ stats.TotalErrors = 1
    /\ Len(NewLines) = 2
    /\ \A l \in 1..Len(NewLines) : NewLines[l].rec.source_file = txtFiles[2]

\* A line of the output that is a whole record followed by its terminator
WholeLine(seg) == seg.complete /\ seg.nl

\* The positions in the error log of the files that failed at a chunk
FailedAtProcessChunk ==
    {j \in 1..Len(errorLog) : ErrMsg(errorLog[j].err) = "failed to process chunk"}

\* The lines of this run that belong to file f
LinesOf(f) == {l \in 1..Len(NewLines) : NewLines[l].rec.source_file = f}

\* C12: when the embedding or the write of chunk k of a file fails, the
\* file is logged and counted as failed, the whole records of that file in
\* the output are those of chunks 0..k-1, nothing is requested or written
\* for a chunk after k, and the file loop goes on to the next file.
C12_ChunkFailureAbortsFile ==
    entry = "main" =>
        /\ \A j \in FailedAtProcessChunk :
               LET f == errorLog[j].file
                   k == errorLog[j].err[1].n
                   whole == {l \in LinesOf(f) : WholeLine(NewLines[l])}
               IN  /\ {NewLines[l].rec.chunk_index : l \in whole} = 0..(k - 1)
                   /\ \A l \in LinesOf(f) : NewLines[l].rec.chunk_index <= k
                   /\ \A l \in LinesOf(f) :
                          NewLines[l].rec.chunk_index = k =>
                              /\ ~WholeLine(NewLines[l])
                              /\ errorLog[j].err[2].msg = "failed to write record"
                   /\ Cardinality({i \in FailedAtProcessChunk : errorLog[i].file = f}) = 1
        /\ \A l1, l2 \in 1..Len(NewLines) :
               (l1 < l2 /\ NewLines[l1].rec.source_file = NewLines[l2].rec.source_file)
                   => WholeLine(NewLines[l1])
        /\ embedCalls = Len(NewLines)
                         + Cardinality({j \in FailedAtProcessChunk :
                               \A l \in LinesOf(errorLog[j].file) :
                                   NewLines[l].rec.chunk_index # errorLog[j].err[1].n})
                         + (IF pc \in {"Embedding", "WriteRecord"} THEN 1 ELSE 0)
        /\ stats.FilesSkipped = Cardinality(FailedAtChunk) + Cardinality(FailedAtProcessChunk)
        /\ stats.ChunksCreated
               = Cardinality({l \in 1..Len(NewLines) : WholeLine(NewLines[l])})
        /\ (pc \in {"Returned", "Exited"} /\ txtFiles # <<>>) =>
               fileIdx = Len(txtFiles) + 1 /\ procErr = NoErr

\* The second chunk of the first file failed after its first chunk was
\* written, and the second file was then processed to its end.
C12_Witness ==
    /\ pc = "Exited"
    /\ Len(txtFiles) = 2
    /\ Len(errorLog) = 1
    /\ errorLog[1].file = txtFiles[1]
    /\ errorLog[1].err[1] = Layer("failed to process chunk", 1)
    /\ errorLog[1].err[2].msg = "failed to generate embedding"
    /\ Len(NewLines) = 3
    /\ NewLines[1].rec.source_file = txtFiles[1]
    /\ NewLines[2].rec.source_file = txtFiles[2]
    /\ stats.FilesProcessed = 1
    /\ stats.FilesSkipped = 1

\* C13: in the lines one run appends, the chunk_index values of a source
\* file are 0, 1, 2, ... in the order written: the n-th line of a file
\* carries index n-1, so the indices written form a prefix of the chunk
\* indices with no gap and no repetition, and they are indices of chunks
\* the chunker produced for that file.
C13_ContiguousChunkIndex ==
    entry = "main" =>
        /\ \A l \in 1..Len(NewLines) :
               NewLines[l].rec.chunk_index
                   = Cardinality({x \in LinesOf(NewLines[l].rec.source_file) : x < l})
        /\ \A l \in 1..Len(NewLines) :
               LET produced == ChunksOfFile(NewLines[l].rec.source_file)
                   n == NewLines[l].rec.chunk_index + 1
               IN  /\ n <= Len(produced)
                   /\ produced[n].Index = NewLines[l].rec.chunk_index
                   /\ produced[n].Text = NewLines[l].rec.text
        /\ \A l \in 1..Len(NewLines) : WholeLine(NewLines[l]) =>
               Cardinality({x \in 1..Len(NewLines) :
                               /\ WholeLine(NewLines[x])
                               /\ NewLines[x].rec.source_file = NewLines[l].rec.source_file
                               /\ NewLines[x].rec.chunk_index = NewLines[l].rec.chunk_index})
                   = 1

\* Both chunks of a file were written, after a file that stopped at its
\* first chunk.
C13_Witness ==
    /\ pc = "Exited"
    /\ Len(txtFiles) = 2
    /\ Len(NewLines) = 3
    /\ ~WholeLine(NewLines[1])
    /\ NewLines[1].rec.source_file = txtFiles[1]
    /\ NewLines[2].rec.source_file = txtFiles[2]
    /\ NewLines[2].rec.chunk_index = 0
    /\ NewLines[3].rec.chunk_index = 1
    /\ WholeLine(NewLines[3])

\* C14: one file and one chunk are in progress at a time: an embedding call
\* runs only for the current chunk of the current file, the files are taken
\* in discovery order and the chunks in index order, so the lines of a run
\* are ordered by (position of the file in the discovery, chunk index) and
\* the lines of two files are never interleaved.
C14_SequentialOrder ==
    entry = "main" =>
        /\ \A i, j \in 1..Len(txtFiles) : i < j => txtFiles[i] < txtFiles[j]
        /\ \A l1, l2 \in 1..Len(NewLines) : l1 < l2 =>
               \/ NewLines[l1].rec.source_file < NewLines[l2].rec.source_file
               \/ /\ NewLines[l1].rec.source_file = NewLines[l2].rec.source_file
                  /\ NewLines[l1].rec.chunk_index < NewLines[l2].rec.chunk_index
        /\ \A l \in 1..Len(NewLines) :
               /\ \E i \in 1..Len(txtFiles) :
                      i <= fileIdx /\ txtFiles[i] = NewLines[l].rec.source_file
               /\ (pc \in {"ChunkLoop", "Embedding", "WriteRecord"}
                      /\ NewLines[l].rec.source_file = txtFiles[fileIdx])
                      => \/ chunkIdx > Len(chunks)
                         \/ NewLines[l].rec.chunk_index < chunks[chunkIdx].Index
        /\ pc \in {"ChunkLoop", "Embedding", "WriteRecord"} =>
               /\ fileIdx \in 1..Len(txtFiles)
               /\ chunkIdx \in 1..(Len(chunks) + 1)
               /\ chunks = ChunksOfFile(txtFiles[fileIdx])
        /\ pc \in {"Embedding", "WriteRecord"} => chunkIdx <= Len(chunks)
        /\ epc \in {"loop", "wait", "inflight", "ret"} => pc = "Embedding"
        /\ embedCalls <= (IF pc \in {"Embedding", "WriteRecord"} THEN 1 ELSE 0)
                          + Len(NewLines) + Len(errorLog)

\* Two files of two chunks each were written in full.
C14_Witness ==
    /\ pc = "Exited"
    /\ Len(txtFiles) = 2
    /\ Len(NewLines) = 4
    /\ \A l \in 1..4 : WholeLine(NewLines[l])
    /\ NewLines[2].rec.source_file = txtFiles[1]
    /\ NewLines[3].rec.source_file = txtFiles[2]

\* s is an initial part of t
IsPrefix(s, t) == Len(s) <= Len(t) /\ SubSeq(t, 1, Len(s)) = s

\* C15: no call of NewWriter, WriteRecord or Close, in this or a later
\* opening of the same path, removes or changes anything the file held
\* before the call: the earlier content stays as a prefix of the file, and
\* opening the path leaves its lines as they were.
C15_AppendOnly ==
    [][/\ outFile.exists => outFile'.exists
       /\ IsPrefix(outFile.lines, outFile'.lines)
       /\ IsPrefix(outFile0.lines, outFile'.lines)
       /\ wLastOp' \in {"NewWriter", "Close"} => outFile'.lines = outFile.lines]_vars

\* The path held a record, was opened and written twice (two runs), and
\* holds the old record followed by the new ones.
C15_Witness ==
    /\ entry = "Writer"
    /\ wOpens = 2
    /\ wLastOp = "WriteRecord"
    /\ wErr = NoErr
    /\ outFile0.lines = <<OldLine>>
    /\ Len(outFile.lines) = 3
    /\ outFile.lines[1] = OldLine

\* C16: Close closes the Writer, and a WriteRecord on a closed Writer
\* returns an error and leaves the output file and the Writer as they were.
C16_WriteAfterClose ==
    [][/\ (wOps' # wOps /\ wLastOp' = "Close") => writer' = "closed"
       /\ (wOps' # wOps /\ wLastOp' = "WriteRecord" /\ writer = "closed") =>
              /\ wErr' # NoErr
              /\ outFile' = outFile
              /\ writer' = "closed"]_vars

\* Two writes in a row were refused after a Close.
C16_Witness ==
    /\ entry = "Writer"
    /\ writer = "closed"
    /\ wLastOp = "WriteRecord"
    /\ wErr # NoErr
    /\ wOps = 4
    /\ wOpens = 1
    /\ outFile.lines = outFile0.lines

\* C17: after every WriteRecord call, successful or not, the output file
\* holds only whole record lines, each followed by its line terminator.
C17_ValidAppendState ==
    (entry = "Writer" /\ wLastOp = "WriteRecord") =>
        \A l \in 1..Len(outFile.lines) : WholeLine(outFile.lines[l])

\* The positions of t at which a whitespace-delimited token starts that
\* holds a letter or a digit
ValidTokenStarts(t) ==
    {i \in 1..Len(t) :
        /\ ~IsSpace(t[i])
        /\ i = 1 \/ IsSpace(t[i - 1])
        /\ \E j \in i..Len(t) :
               IsAlnum(t[j]) /\ \A x \in i..j : ~IsSpace(t[x])}

\* W: the number of tokens of t that count as words
FilteredWordCount(t) == Cardinality(ValidTokenStarts(t))

\* ceil(a / b) for b > 0
CeilDiv(a, b) == (a + b - 1) \div b

\* The chunks have the count and the word counts stated for W words and
\* target size S.
ChunkCountsAsStated(cs, W, S) ==
    /\ Len(cs) = (IF W > S THEN CeilDiv(W, S) ELSE 1)
    /\ \A i \in 1..(Len(cs) - 1) : cs[i].WordCount = S
    /\ cs[Len(cs)].WordCount = (IF W % S = 0 THEN S ELSE W % S)

\* C18: for a text with W >= 1 words (whitespace-delimited tokens holding a
\* letter or a digit) and target size S >= 1, ChunkText returns ceil(W/S)
\* chunks if W > S and one chunk otherwise; every chunk has S words except
\* possibly the last, which has W mod S words, or S when S divides W.  A
\* non-empty text is read as one with W >= 1.
C18_ChunkCounts ==
    (ctResult.called /\ FilteredWordCount(ctText) >= 1) =>
        ChunkCountsAsStated(ctResult.chunks, FilteredWordCount(ctText), ctSize)

\* Four words chunked by three: a full chunk and a last chunk of W mod S.
C18_Witness ==
    /\ ctResult.called
    /\ FilteredWordCount(ctText) = 4
    /\ ctSize = 3
    /\ Len(ctResult.chunks) = 2
    /\ ctResult.chunks[1].WordCount = 3
    /\ ctResult.chunks[2].WordCount = 1

\* The same for every text that is not blank: a text of punctuation tokens
\* has W = 0 and gives no chunk, so this reading fails on it as well.
C18_ChunkCountsNonEmptyText ==
    (ctResult.called /\ TrimSpace(ctText) # <<>>) =>
        /\ ctResult.chunks # <<>>
        /\ ChunkCountsAsStated(ctResult.chunks, FilteredWordCount(ctText), ctSize)

\* C19: the chunks ChunkText returns are numbered 0..n-1 in the order
\* returned: the i-th chunk has Index i - 1.
C19_ChunkIndices ==
    ctResult.called =>
        /\ \A i \in 1..Len(ctResult.chunks) : ctResult.chunks[i].Index = i - 1
        /\ {ctResult.chunks[i].Index : i \in 1..Len(ctResult.chunks)}
               = 0..(Len(ctResult.chunks) - 1)

C19_Witness ==
    /\ ctResult.called
    /\ Len(ctResult.chunks) = 3
    /\ ctResult.chunks[3].Index = 2
    /\ \E i \in 1..Len(ctText) : ctText[i] = "."

\* C20: ChunkText returns no chunk exactly when the text has no token that
\* holds a letter or a digit, that is when no character of the text is a
\* letter or a digit: the empty text, a blank text, and a text of
\* punctuation tokens; any other text gives at least one chunk.
C20_EmptyResult ==
    ctResult.called =>
        /\ ctResult.chunks = <<>> <=> ~\E i \in 1..Len(ctText) : IsAlnum(ctText[i])
        /\ ctResult.chunks = <<>> <=> FilteredWordCount(ctText) = 0
        /\ ctText = <<>> => ctResult.chunks = <<>>
        /\ TrimSpace(ctText) = <<>> => ctResult.chunks = <<>>

\* A text of punctuation tokens only gave no chunk.
C20_Witness ==
    /\ ctResult.called
    /\ ctResult.chunks = <<>>
    /\ TrimSpace(ctText) # <<>>
    /\ \E i \in 1..Len(ctText) : IsSpace(ctText[i])
    /\ \E i \in 1..Len(ctText) : ctText[i] = "."

\* C21: a text with 1 <= W <= S valid tokens gives exactly one chunk, with
\* index 0, whose text is the text given with the whitespace at its two ends
\* removed and nothing else changed, and whose word_count is W, the number
\* of valid tokens, which can be less than the number of tokens in the text.
C21_SingleChunkVerbatim ==
    (ctResult.called /\ FilteredWordCount(ctText) >= 1
        /\ FilteredWordCount(ctText) <= ctSize) =>
        LET first == CHOOSE i \in 1..Len(ctText) :
                         ~IsSpace(ctText[i]) /\ \A j \in 1..(i - 1) : IsSpace(ctText[j])
            last == CHOOSE i \in 1..Len(ctText) :
                        ~IsSpace(ctText[i]) /\ \A j \in (i + 1)..Len(ctText) : IsSpace(ctText[j])
        IN  ctResult.chunks = <<Chunk(SubSeq(ctText, first, last),
                                      FilteredWordCount(ctText), 0)>>

\* One chunk that keeps a punctuation token and a run of two spaces of the
\* text but counts only the two words.
C21_Witness ==
    /\ ctResult.called
    /\ ctSize = 2
    /\ ctText = <<" ", "a", " ", ".", " ", " ", "1">>
    /\ ctResult.chunks = <<Chunk(<<"a", " ", ".", " ", " ", "1">>, 2, 0)>>

\* C22: chunking the texts of the chunks of a text, joined with single
\* spaces, with the same target size gives the same chunks again: the same
\* number, texts, word counts and indices.
C22_RechunkIdempotent ==
    ctAgain.called => ctAgain.chunks = ctResult.chunks

\* Three chunks were chunked again into the same three chunks.
C22_Witness ==
    /\ ctAgain.called
    /\ Len(ctResult.chunks) = 3
    /\ ctSize = 1
    /\ ctAgain.chunks = ctResult.chunks
    /\ \E i \in 1..Len(ctText) : ctText[i] = "."

\* The seven fields of a record
RecordFields ==
    {"id", "source_file", "chunk_index", "text", "embedding", "word_count", "created_at"}

\* C23: every record a run writes has the seven fields, with an id, the
\* path of a discovered file, a chunk_index >= 0, a non-empty text, a
\* non-empty embedding, a word_count >= 1 and a timestamp; every chunk the
\* chunker handed to the run has a non-empty text and a word_count >= 1.
C23_RecordFieldsFilled ==
    entry = "main" =>
        /\ \A l \in 1..Len(NewLines) :
               LET rec == NewLines[l].rec IN
               /\ DOMAIN rec = RecordFields
               /\ rec.id >= 1
               /\ \E i \in 1..Len(txtFiles) : txtFiles[i] = rec.source_file
               /\ rec.chunk_index >= 0
               /\ rec.text # <<>>
               /\ rec.embedding # <<>>
               /\ rec.word_count >= 1
               /\ rec.created_at = "RFC3339"
        /\ \A i \in 1..Len(chunks) :
               /\ chunks[i].Text # <<>>
               /\ chunks[i].WordCount >= 1
               /\ chunks[i].Index >= 0

\* A file of three words was written as a record of two words and a
\* record of one word.
C23_Witness ==
    /\ pc = "Exited"
    /\ Len(NewLines) = 2
    /\ NewLines[1].rec.word_count = 2
    /\ NewLines[2].rec.word_count = 1
    /\ NewLines[2].rec.embedding = <<1, 2>>
    /\ WholeLine(NewLines[2])

\* C25: a run that was not aborted (a passed health check and no error from
\* Process) is done only after Finalizing: the end time is recorded, the
\* summary has been printed once and the writer is closed, for any number
\* of discovered files including zero.
C25_DoneThroughFinalizing ==
    (entry = "main" /\ pc \in {"Returned", "Exited"} /\ healthChecks = 1
        /\ procErr = NoErr) =>
        /\ stats.EndTime = "set"
        /\ Len(summary) = 1
        /\ writer = "closed"

\* C26: when discovery finds no .txt file, Process returns nil having made
\* no embedding call and no request, appended nothing to the output and
\* counted nothing, and the program exits with status 0.
C26_EmptyDiscovery ==
    (entry = "main" /\ writer # "nil" /\ txtFiles = <<>>
        /\ pc \in {"Returned", "Exited"}) =>
        /\ procErr = NoErr
        /\ embedCalls = 0
        /\ requests = 0
        /\ outFile.lines = outFile0.lines
        /\ stats = ZeroStats
        /\ errorLog = <<>>
        /\ pc = "Exited" => exitCode = 0

\* A directory with two entries, none of them a .txt file, was processed.
C26_Witness ==
    /\ entry = "main"
    /\ pc = "Exited"
    /\ writer = "closed"
    /\ Len(tree) = 2
    /\ txtFiles = <<>>
    /\ exitCode = 0
    /\ outFile0.lines = <<OldLine>>

\* The discovered files that were read and gave no chunk
ZeroChunkFiles ==
    {i \in ReadableFiles : ChunksOfFile(txtFiles[i]) = <<>>}

\* C27: a discovered file that gives no chunk is no error: it has no line
\* in the output and no line in the error log, files_skipped and
\* total_errors count only the logged failures, and a run whose files all
\* give no chunk makes no embedding call and ends with no file skipped.
C27_ZeroChunkFile ==
    entry = "main" =>
        LET zero == ZeroChunkFiles
        IN  /\ \A i \in zero :
                   /\ LinesOf(txtFiles[i]) = {}
                   /\ \A j \in 1..Len(errorLog) : errorLog[j].file # txtFiles[i]
            /\ stats.FilesSkipped = Len(errorLog)
            /\ stats.TotalErrors = Len(errorLog)
            /\ Cardinality(zero) = Len(txtFiles) =>
                   /\ embedCalls = 0
                   /\ requests = 0
                   /\ NewLines = <<>>
                   /\ stats.FilesSkipped = 0
                   /\ stats.TotalErrors = 0
                   /\ pc \in {"Returned", "Exited"} => stats.FilesProcessed = Len(txtFiles)

\* A file without a word was passed over and the file after it was written.
C27_Witness ==
    /\ pc = "Exited"
    /\ Len(txtFiles) = 2
    /\ ZeroChunkFiles = {1}
    /\ stats.FilesProcessed = 2
    /\ stats.FilesSkipped = 0
    /\ stats.TotalErrors = 0
    /\ embedCalls = 2
    /\ Len(NewLines) = 2

\* C24: the line of every record written as a whole decodes to the
\* source_file, chunk_index, text, word_count and embedding that were
\* passed to WriteRecord.
C24_RoundTrip ==
    entry = "Writer" =>
        \A l \in 1..Len(NewLines) : WholeLine(NewLines[l]) =>
            LET rec == NewLines[l].rec
                decoded == UnmarshalRecord(NewLines[l].line)
            IN  /\ decoded.source_file = rec.source_file
                /\ decoded.chunk_index = rec.chunk_index
                /\ decoded.text = rec.text
                /\ decoded.word_count = rec.word_count
                /\ decoded.embedding = rec.embedding

\* The base URL the environment configures: OLLAMA_HOST when it is set,
\* the default otherwise
ConfiguredBaseURL == IF ollamaHost = "" THEN DefaultBaseURL ELSE ollamaHost

\* NewEmbedder returns in this step
NewEmbedderStep == entry = "NewEmbedder" /\ ~embedder.made /\ embedder'.made

\* A health-check or embedding request is sent in this step
RequestStep == entry = "NewEmbedder" /\ Len(sent') = Len(sent) + 1

\* C28: the Embedder that NewEmbedder returns has the base URL that
\* OLLAMA_HOST configures (the default one when it is unset), and every
\* health-check and embedding request is sent to the base URL the Embedder
\* holds, which is the configured one unless SetBaseURL replaced it.
C28_OllamaHost ==
    [][/\ NewEmbedderStep => embedder'.baseURL = ConfiguredBaseURL
       /\ RequestStep => sent'[Len(sent')].base = embedder.baseURL]_vars

\* Every request goes to the base URL the Embedder holds when it is sent.
C28_RequestsToBaseURL == [][RequestStep => sent'[Len(sent')].base = embedder.baseURL]_vars

\* C29: HealthCheck returns nil exactly when the status endpoint answered
\* with a 2xx status; a network failure and every other status give an
\* error.
C29_Any2xxHealthy ==
    etLast.op = "HealthCheck" =>
        (etLast.err = NoErr <=>
            (etLast.resp.kind = "http" /\ etLast.resp.status \in 200..299))

\* The positions of the regular files named *.txt (in any case) that the
\* walk reached without an access error
RegularTxtFiles(entries) ==
    SelectSeq([i \in 1..Len(entries) |-> i],
              LAMBDA i : /\ entries[i].type = "file"
                         /\ ToLower(entries[i].ext) = ".txt"
                         /\ ~entries[i].walkErr)

\* C30: discovery returns exactly the regular files whose extension is
\* .txt in any case and whose path had no traversal error: no directory,
\* no symbolic link, nothing omitted.
C30_ExactlyRegularTxt ==
    (entry = "discoverTextFiles" /\ dResult.called) =>
        dResult.files = RegularTxtFiles(tree)

\* main left through os.Exit(1) after cfg.Validate() returned an error:
\* Process, whose first step is the health check, was never entered
ValidateFailed == pc = "Exited" /\ healthChecks = 0

\* The configuration names no directory, a chunk size <= 0 or no model
ConfigRejected == cfg.Directory # "dir" \/ cfg.ChunkSize <= 0 \/ cfg.Model = ""

\* Nothing of Process has happened
NothingProcessed ==
    /\ healthChecks = 0
    /\ embedCalls = 0
    /\ writer = "nil"
    /\ txtFiles = <<>>
    /\ outFile = outFile0
    /\ summary = <<>>

\* C31 as stated: Validate fails exactly for a missing or non-directory
\* input path, a chunk size <= 0 or an empty model, and a failed Validate
\* makes main exit with status 1 before the health check and any processing.
C31_ValidateAsStated ==
    (entry = "main" /\ pc # "Validate") =>
        /\ ValidateFailed <=> ConfigRejected
        /\ ValidateFailed => (exitCode = 1 /\ NothingProcessed)

\* C31: Validate fails for a missing or non-directory input path, a chunk
\* size <= 0 or an empty model, and also when the output directory is
\* missing and cannot be created; it succeeds in every other case; a failed
\* Validate makes main exit with status 1 before the health check and any
\* processing.
C31_Validate ==
    (entry = "main" /\ pc # "Validate") =>
        /\ ValidateFailed <=> (ConfigRejected \/ ~outDir)
        /\ ValidateFailed => (exitCode = 1 /\ NothingProcessed)

\* A configuration with every field right was rejected because the output
\* directory could not be created, and main exited with status 1.
C31_Witness ==
    /\ entry = "main"
    /\ ValidateFailed
    /\ ~ConfigRejected
    /\ ~outDir
    /\ exitCode = 1

\* The token of t that starts at position i: the characters up to the next
\* white space or the end of t
TokenAt(t, i) ==
    LET e == CHOOSE e \in i..Len(t) :
                 /\ \A x \in i..e : ~IsSpace(t[x])
                 /\ e = Len(t) \/ IsSpace(t[e + 1])
    IN  SubSeq(t, i, e)

RECURSIVE ValidTokensFrom(_, _)
\* The tokens of t holding a letter or a digit that start at position i or
\* later, in the order of the text
ValidTokensFrom(t, i) ==
    IF i > Len(t) THEN <<>>
    ELSE (IF i \in ValidTokenStarts(t) THEN <<TokenAt(t, i)>> ELSE <<>>)
         \o ValidTokensFrom(t, i + 1)

\* C32: when the text has W > S valid tokens, chunk k (from 1) holds the
\* tokens (k-1)*S+1 .. min(k*S, W) of the text, in order, joined by single
\* spaces, and counts them; so the chunks together hold every valid token
\* once, unsplit and in order, and no token without a letter or digit.
C32_Partition ==
    (ctResult.called /\ FilteredWordCount(ctText) > ctSize) =>
        LET toks == ValidTokensFrom(ctText, 1)
            cs == ctResult.chunks
        IN  /\ \A k \in 1..Len(cs) :
                   LET group == SubSeq(toks, (k - 1) * ctSize + 1,
                                       Min(k * ctSize, Len(toks)))
                   IN  /\ group # <<>>
                       /\ cs[k].Text = Join(group, <<" ">>)
                       /\ cs[k].WordCount = Len(group)
            /\ Len(cs) * ctSize >= Len(toks)
            /\ Join(ChunkTexts(cs), <<" ">>) = Join(toks, <<" ">>)

\* Three words and a punctuation token between them, chunked by two: the
\* punctuation token is in no chunk.
C32_Witness ==
    /\ ctResult.called
    /\ ctSize = 2
    /\ ctText = <<"a", " ", ".", " ", "1", " ", "a">>
    /\ ctResult.chunks = <<Chunk(<<"a", " ", "1">>, 2, 0), Chunk(<<"a">>, 1, 1)>>

\* Every whitespace-delimited token of t is shorter than the Scanner's buffer
TokensFit(t) ==
    \A i \in 1..Len(t) :
        (~IsSpace(t[i]) /\ (i = 1 \/ IsSpace(t[i - 1]))) =>
            TokenBytes(TokenAt(t, i)) < MaxScanTokenSize

\* What C18, C20, C21 and C32 say holds for the texts whose tokens all fit
\* the Scanner's buffer.
ChunkerClaimsWhenTokensFit ==
    TokensFit(ctText) =>
        /\ C18_ChunkCounts
        /\ C20_EmptyResult
        /\ C21_SingleChunkVerbatim
        /\ C32_Partition

\* A token of 65536 bytes between two words: ChunkText kept the first word
\* only and returned the whole text as one chunk of one word.
LongTokenEndsScan ==
    /\ ctResult.called
    /\ ctSize = 2
    /\ ctText = <<"a", " ", Run32K, Run32K, " ", "a">>
    /\ ctResult.chunks = <<Chunk(ctText, 1, 0)>>

\* A token of 32768 bytes and one more letter is a word like any other.
LongestTokensFit ==
    /\ ctResult.called
    /\ ctSize = 1
    /\ ctText = <<Run32K, "a", " ", "a">>
    /\ ctResult.chunks = <<Chunk(<<Run32K, "a">>, 1, 0), Chunk(<<"a">>, 1, 1)>>

\* Process returned the error of NewWriter
WriterInitFailed == ErrMsg(procErr) = "failed to initialize writer"

\* C33: the writer is opened after a successful health check and before
\* discovery; an opened writer means the parent directory and the file
\* exist; when NewWriter fails there is no Writer, and Process returns the
\* error without discovering or processing anything, so main exits with 1.
C33_WriterOpening ==
    entry = "main" =>
        /\ pc = "NewWriter" =>
               (healthChecks = 1 /\ healthErr = NoErr /\ writer = "nil" /\ txtFiles = <<>>)
        /\ writer # "nil" =>
               (healthChecks = 1 /\ healthErr = NoErr /\ outDir /\ outFile.exists)
        /\ pc \in {"Discover", "FileLoop", "ChunkLoop", "Embedding", "WriteRecord"} =>
               writer = "open"
        /\ txtFiles # <<>> => writer # "nil"
        /\ WriterInitFailed =>
               /\ procErr[2].msg \in {"failed to create output directory",
                                      "failed to open output file"}
               /\ writer = "nil"
               /\ txtFiles = <<>>
               /\ embedCalls = 0
               /\ stats = ZeroStats
               /\ NewLines = <<>>
               /\ summary = <<>>
               /\ pc \in {"Returned", "Exited"}
               /\ pc = "Exited" => exitCode = 1

\* The health check passed, the output file could not be opened, and the
\* run ended with status 1 and nothing discovered.
C33_Witness ==
    /\ entry = "main"
    /\ pc = "Exited"
    /\ WriterInitFailed
    /\ procErr[2].msg = "failed to open output file"
    /\ healthChecks = 1
    /\ tree # <<>>
    /\ txtFiles = <<>>
    /\ exitCode = 1

\* The discovered files whose processing has finished
FinishedFiles == 1..(fileIdx - 1)

\* C34: total_errors = files_skipped in every state; files_processed +
\* files_skipped is the number of files whose processing has finished, and
\* the number of discovered files once the loop is over; a file is counted
\* once: as skipped when the error log has its line, as processed otherwise.
C34_FileCounters ==
    entry = "main" =>
        /\ stats.TotalErrors = stats.FilesSkipped
        /\ stats.FilesProcessed + stats.FilesSkipped = Cardinality(FinishedFiles)
        /\ FinishedFiles \subseteq 0..Len(txtFiles)
        /\ pc \in {"ChunkLoop", "Embedding", "WriteRecord"} => fileIdx <= Len(txtFiles)
        /\ (pc \in {"Returned", "Exited"} /\ txtFiles # <<>>) =>
               stats.FilesProcessed + stats.FilesSkipped = Len(txtFiles)
        /\ stats.FilesSkipped
               = Cardinality({i \in FinishedFiles :
                                 \E j \in 1..Len(errorLog) : errorLog[j].file = txtFiles[i]})
        /\ stats.FilesProcessed
               = Cardinality({i \in FinishedFiles :
                                 \A j \in 1..Len(errorLog) : errorLog[j].file # txtFiles[i]})
        /\ \A j1, j2 \in 1..Len(errorLog) :
               errorLog[j1].file = errorLog[j2].file => j1 = j2

\* Two files were discovered; the run ended with one processed and one
\* skipped.
C34_Witness ==
    /\ entry = "main"
    /\ pc = "Exited"
    /\ Len(txtFiles) = 2
    /\ stats.FilesProcessed = 1
    /\ stats.FilesSkipped = 1
    /\ stats.TotalErrors = 1

\* C35: chunks_created is the number of lines this run has appended to
\* the output (records written whole, which are also the line terminators
\* written): every chunk whose embedding was fetched is either counted and
\* written, or logged as failed and not counted, or still in progress; the
\* summary reports the same number.
C35_ChunksCreated ==
    entry = "main" =>
        /\ stats.ChunksCreated
               = Cardinality({l \in 1..Len(NewLines) : WholeLine(NewLines[l])})
        /\ stats.ChunksCreated = Cardinality({l \in 1..Len(NewLines) : NewLines[l].nl})
        /\ embedCalls = stats.ChunksCreated + Cardinality(FailedAtProcessChunk)
                          + (IF pc \in {"Embedding", "WriteRecord"} THEN 1 ELSE 0)
        /\ \A k \in 1..Len(summary) : summary[k].chunks_created = stats.ChunksCreated

\* The first chunk of a file was written and counted, its second chunk
\* failed, and the file was counted as skipped.
C35_Witness ==
    /\ entry = "main"
    /\ pc = "Exited"
    /\ Len(txtFiles) = 1
    /\ stats.FilesSkipped = 1
    /\ stats.ChunksCreated = 1
    /\ Len(NewLines) = 2
    /\ WholeLine(NewLines[1])
    /\ ~WholeLine(NewLines[2])
    /\ summary[1].chunks_created = 1

\* C36: when Process returns with the writer opened, the deferred Close
\* closes it at that step and at no other; a closed writer stays closed,
\* and after Process has returned the output file is not written again.
C36_ClosedOnReturn ==
    /\ [](entry = "main" =>
            /\ pc \in {"Returned", "Exited"} => writer \in {"nil", "closed"}
            /\ (pc \in {"Returned", "Exited"} /\ writer = "nil") =>
                   (ErrMsg(procErr) \in {"Ollama API health check failed",
                                         "failed to initialize writer"}
                       \/ healthChecks = 0)
            /\ writer = "closed" => pc \in {"Returned", "Exited"})
    /\ [][entry = "main" =>
            /\ (writer = "open" /\ pc # "Returned" /\ pc' = "Returned") => writer' = "closed"
            /\ (writer' = "closed" /\ writer # "closed") =>
                   (writer = "open" /\ pc # "Returned" /\ pc' = "Returned")
            /\ writer = "closed" => writer' = "closed"
            /\ pc \in {"Returned", "Exited"} =>
                   (outFile' = outFile /\ writer' = writer /\ embedCalls' = embedCalls)]_vars

\* Process wrote a record, returned, and main exited with the writer closed.
C36_Witness ==
    /\ entry = "main"
    /\ pc = "Exited"
    /\ writer = "closed"
    /\ procErr = NoErr
    /\ Len(NewLines) >= 1
    /\ WholeLine(NewLines[1])

\* C37: for a chunk size >= 1 ChunkText returns: each loop body adds the
\* chunk size to i, which grows, no slice panics, and the call ends with
\* the chunks of the text.  Nothing in the Chunker rejects a chunk size
\* <= 0: a panic happens only for a negative size, and with size 0 the loop
\* stays at i = 0 without a chunk.
C37_ChunkTextTerminates ==
    /\ [](ctSize >= 1 => <>(clPc = "done"))
    /\ [](ctSize >= 1 => (clPc # "panic" /\ clI <= Len(clWords) + ctSize - 1))
    /\ []((clPc = "done" /\ ctSize >= 1) => ctResult.chunks = ChunkText(ctText, ctSize))
    /\ [](clPc = "panic" => ctSize < 0)
    /\ []((clPc = "loop" /\ ctSize = 0) => (clI = 0 /\ clChunks = <<>>))
    /\ [][(clPc = "loop" /\ clPc' = "loop" /\ ctSize >= 1) =>
              (clI' = clI + ctSize /\ clI' > clI /\ clI < Len(clWords))]_vars

\* Three words chunked by one: the loop ran three bodies and returned
\* three chunks.
C37_Witness ==
    /\ entry = "ChunkLoop"
    /\ ctSize = 1
    /\ clPc = "done"
    /\ clIters = 3
    /\ clI = 3
    /\ Len(ctResult.chunks) = 3

\* With chunk size 0 the loop has run MaxLoopIters bodies and is where it
\* started.
C37_WitnessZero ==
    /\ entry = "ChunkLoop"
    /\ ctSize = 0
    /\ clPc = "loop"
    /\ clIters = MaxLoopIters
    /\ clI = 0

\* C38: every run ends (main exits, with status 0 or 1); the file loop
\* moves forward one file at a time, a GetEmbedding call makes at most
\* retries + 1 requests, and while nothing could be written every failed
\* file failed at its first chunk, so that no more GetEmbedding calls were
\* made than there are files.
C38_RunTerminates ==
    /\ [](entry = "main" => <>(pc = "Exited" /\ exitCode \in {0, 1}))
    /\ [](entry = "main" =>
            /\ requests <= retries + 1
            /\ fileIdx <= Len(txtFiles) + 1
            /\ NewLines = <<>> =>
                   /\ \A j \in FailedAtProcessChunk : errorLog[j].err[1].n = 0
                   /\ embedCalls <= Len(txtFiles))
    /\ [][entry = "main" =>
            /\ fileIdx' \in {fileIdx, fileIdx + 1}
            /\ pc = "Exited" => pc' = "Exited"]_vars

\* os.Open returns on every entry of the input directory.
EveryOpenReturns == \A i \in 1..Len(tree) : ~OpenBlocks(tree[i])

\* The run is in the file loop at a discovered FIFO, where no step of the
\* program is possible.
BlockedInOpen ==
    /\ entry = "main"
    /\ pc = "FileLoop"
    /\ fileIdx <= Len(txtFiles)
    /\ OpenBlocks(tree[CurrentFile(txtFiles, fileIdx)])

\* A run on a directory where every os.Open returns ends, whatever files
\* failed on the way and however the service answered.
RunEndsWhenOpenReturns ==
    []((entry = "main" /\ EveryOpenReturns) => <>(pc = "Exited" /\ exitCode \in {0, 1}))

\* Every part of C38 but the end of the run holds of all runs: a run that
\* does not end is a run blocked in os.Open.
RunBlockedOrBounded ==
    /\ [](entry = "main" =>
            /\ requests <= retries + 1
            /\ fileIdx <= Len(txtFiles) + 1
            /\ NewLines = <<>> =>
                   /\ \A j \in FailedAtProcessChunk : errorLog[j].err[1].n = 0
                   /\ embedCalls <= Len(txtFiles))
    /\ [][entry = "main" =>
            /\ fileIdx' \in {fileIdx, fileIdx + 1}
            /\ pc = "Exited" => pc' = "Exited"]_vars
    /\ [](entry = "main" => <>(BlockedInOpen \/ (pc = "Exited" /\ exitCode \in {0, 1})))

\* A file that cannot be opened was skipped, and the file of two chunks
\* after it was skipped too, the service having answered 500 to each of the
\* retries + 1 requests for its first chunk; none was made for its second
\* chunk, and the run ended with status 0.
FailedFileThenNext ==
    /\ entry = "main"
    /\ pc = "Exited"
    /\ exitCode = 0
    /\ Len(txtFiles) = 2
    /\ stats.FilesSkipped = 2
    /\ embedCalls = 1
    /\ NewLines = <<>>
    /\ ~tree[txtFiles[1]].opens
    /\ Len(ChunksOfFile(txtFiles[2])) = 2
    /\ Len(errorLog) = 2
    /\ FailedStep(1) = "failed to open file"
    /\ errorLog[2] = ErrorLine(txtFiles[2],
                              <<Layer("failed to process chunk", 0),
                                Layer("failed to generate embedding", 0),
                                Layer("failed to get embedding after attempts", retries + 1),
                                Layer("API request failed with status", 500)>>)

\* C39: an answer with a status other than 200, be it 201 or 204 with a
\* valid embedding or 400, 404 or 500, is a failed attempt with the status
\* error and is followed by a retry like any other failure.  What follows a
\* failed attempt depends on the number of failed attempts and on the
\* context, never on the kind of the failure: a wait and a new request
\* while at most retries attempts failed, the aggregated error of the last
\* failure after retries + 1, and ctx.Err() from a wait once the context
\* is cancelled.
C39_Non200Retried ==
    /\ []((lastResp.kind = "http" /\ lastResp.status # 200 /\ RequestOver) =>
            /\ lastReqErr = <<Layer("API request failed with status", lastResp.status)>>
            /\ ~(Returned /\ eret.err = NoErr)
            /\ attempt >= 1)
    /\ []((Returned /\ eret.err # NoErr) =>
            \/ GaveUp /\ Tail(eret.err) = lastReqErr
            \/ CancelledInWait)
    /\ [][(epc = "body" /\ epc' # "body" /\ lastResp.status # 200) =>
              (epc' = "loop" /\ attempt' = attempt + 1)]_vars
    /\ [][(lastReqErr' # lastReqErr /\ lastReqErr' # NoErr) =>
              (epc' = "loop" /\ attempt' = attempt + 1)]_vars
    /\ [][(epc = "loop" /\ attempt >= 1 /\ epc' # "loop") =>
              IF attempt <= retries
              THEN epc' = "wait"
              ELSE epc' = "ret" /\ eret'.err = AggregatedErr(lastReqErr)]_vars
    /\ [][(epc = "wait" /\ epc' # "wait") =>
              IF ctxDone
              THEN epc' = "ret" /\ eret'.err = CtxCanceled
              ELSE epc' = "inflight" /\ requests' = requests + 1]_vars

\* The service answered 204 with an embedding to every request: the call
\* made retries + 1 requests and returned the status error.
C39_Witness ==
    /\ Returned
    /\ requests = retries + 1
    /\ lastReqErr = <<Layer("API request failed with status", 204)>>
    /\ lastResp = HttpResponse(204, Body(TRUE, <<1, 2>>))
    /\ eret.err = AggregatedErr(<<Layer("API request failed with status", 204)>>)

\* C40: a Validate call that returns an error (main then exits) leaves
\* the filesystem as it was: the output directory is not created and the
\* output file is not touched.
C40_ValidateFrame ==
    [][(entry = "main" /\ pc = "Validate" /\ pc' = "Exited") =>
          (outDir' = outDir /\ outFile' = outFile)]_vars

====
